---- MODULE Spec2Model ----
(***************************************************************************)
(* ClassyC object runtime (ClassyC.h) together with the classes of         *)
(* classyc_sample.c (Vehicle, Car, Elephant; interfaces Moveable and       *)
(* Sellable).                                                              *)
(*                                                                         *)
(* An instance is a block of memory slots.  Every access the C code makes  *)
(* through a typed pointer (self->member, self a pointer to T) is an       *)
(* access to the slot at the offset of that member in the struct of T, so  *)
(* the layout of the nested anonymous structs is part of the model.        *)
(* Slot values are integers: data values are >= 0, NULL is 0 and the       *)
(* address of a function is a negative number.                             *)
(***************************************************************************)
EXTENDS Integers, Sequences, FiniteSets, TLC

\* ---------------------------------------------------------------- bounds
\* cap on self->position / km_since_last_fuel reached by move calls
MaxPosition == 400
\* cap on num_objects_created (number of constructions explored)
MaxCreated == 2
\* cap on the destruction calls made on one instance
MaxDestroyCalls == 2

\* ------------------------------------------------------ class descriptors
NULL == 0

\* x-macro of the OBJECT class: the destructor pointer and the mutex
CLASS_OBJECT ==
  [base |-> "", ifaces |-> <<>>, data |-> <<"_destructor", "mutex">>,
   events |-> <<>>, methods |-> <<>>, overrides |-> <<>>]

CLASS_Vehicle ==
  [base |-> "OBJECT", ifaces |-> <<"Sellable", "Moveable">>,
   data |-> <<"id", "position">>, events |-> <<"on_move">>,
   methods |-> <<"estimate_price", "move">>, overrides |-> <<>>]

CLASS_Car ==
  [base |-> "Vehicle", ifaces |-> <<>>,
   data |-> <<"km_total", "km_since_last_fuel">>, events |-> <<"on_need_fuel">>,
   methods |-> <<"park">>, overrides |-> <<"estimate_price", "move">>]

CLASS_Elephant ==
  [base |-> "OBJECT", ifaces |-> <<"Moveable">>,
   data |-> <<"position">>, events |-> <<"on_move">>,
   methods |-> <<"move">>, overrides |-> <<>>]

I_Moveable ==
  [data |-> <<"position">>, events |-> <<"on_move">>, methods |-> <<"move">>]

I_Sellable ==
  [data |-> <<"id">>, events |-> <<>>, methods |-> <<"estimate_price">>]

\* the classes a program can instantiate
Classes == {"Vehicle", "Car", "Elephant"}

\* the classes of the polymorphism test: BasePrintable implements Printable
\* and declares the method print; DerivedPrintable lists neither a method nor
\* an override
CLASS_BasePrintable ==
  [base |-> "OBJECT", ifaces |-> <<"Printable">>, data |-> <<"base_num">>,
   events |-> <<>>, methods |-> <<"print">>, overrides |-> <<>>]

CLASS_DerivedPrintable ==
  [base |-> "BasePrintable", ifaces |-> <<>>, data |-> <<"derived_num">>,
   events |-> <<>>, methods |-> <<>>, overrides |-> <<>>]

I_Printable ==
  [data |-> <<>>, events |-> <<>>, methods |-> <<"print">>]

PrintableClasses == {"BasePrintable", "DerivedPrintable"}

\* a program that derives a chain of classes, each from the one before it:
\* L1 from OBJECT, L2 from L1, ..., L10 from L9
DeepSeq == <<"L1", "L2", "L3", "L4", "L5", "L6", "L7", "L8", "L9", "L10">>

\* the data member each class of the chain declares
DeepData == <<"d1", "d2", "d3", "d4", "d5", "d6", "d7", "d8", "d9", "d10">>

DeepClasses == {DeepSeq[k] : k \in 1..Len(DeepSeq)}

\* #define CLASS_Lk(Base, Interface, Data, Event, Method, Override)
\*     Base(L<k-1>) Data(int, dk)
CLASS_Deep(class) ==
  LET k == CHOOSE i \in 1..Len(DeepSeq) : DeepSeq[i] = class
  IN  [base |-> IF k = 1 THEN "OBJECT" ELSE DeepSeq[k - 1], ifaces |-> <<>>,
       data |-> <<DeepData[k]>>, events |-> <<>>,
       methods |-> <<>>, overrides |-> <<>>]

Interfaces == {"Moveable", "Sellable"}

GET_IMPLEMENTS(class) ==
  CASE class = "Vehicle"  -> CLASS_Vehicle
    [] class = "Car"      -> CLASS_Car
    [] class = "Elephant" -> CLASS_Elephant
    [] class \in DeepClasses -> CLASS_Deep(class)
    [] class = "BasePrintable"    -> CLASS_BasePrintable
    [] class = "DerivedPrintable" -> CLASS_DerivedPrintable
    [] OTHER              -> CLASS_OBJECT

GET_INTERFACE(interface_name) ==
  CASE interface_name = "Moveable"  -> I_Moveable
    [] interface_name = "Printable" -> I_Printable
    [] OTHER                        -> I_Sellable

X_GET_BASE_NAME(class) == GET_IMPLEMENTS(class).base

Range(s) == {s[i] : i \in 1..Len(s)}

\* name of the member holding the interface cast function: to_<interface>
ToName(interface_name) ==
  CASE interface_name = "Moveable"  -> "to_Moveable"
    [] interface_name = "Printable" -> "to_Printable"
    [] OTHER                        -> "to_Sellable"

RECURSIVE MapToName(_)
MapToName(names) ==
  IF names = <<>> THEN <<>>
  ELSE <<ToName(Head(names))>> \o MapToName(Tail(names))

\* members a class adds to the struct: cast function pointers, data, events,
\* method pointers (Override adds no member)
WRITE_CLASS_STRUCT_NESTED_MEMBERS(class) ==
  LET d == GET_IMPLEMENTS(class)
  IN  MapToName(d.ifaces) \o d.data \o d.events \o d.methods

\* faulty variant: the members of the class come before the struct of its base
RECURSIVE RECURSIVE_CLASS_MEMBER_DECLARATION_OwnFirst(_, _)
RECURSIVE_CLASS_MEMBER_DECLARATION_OwnFirst(class, level) ==
  LET b == X_GET_BASE_NAME(class)
  IN  WRITE_CLASS_STRUCT_NESTED_MEMBERS(class)
      \o (IF level >= 9 \/ b = "" THEN <<>>
          ELSE RECURSIVE_CLASS_MEMBER_DECLARATION_OwnFirst(b, level + 1))

\* the struct of a class: the nested struct of its base first, then its own
\* members; level 9 of the macro chain does not expand the base any more
RECURSIVE RECURSIVE_CLASS_MEMBER_DECLARATION(_, _)
RECURSIVE_CLASS_MEMBER_DECLARATION(class, level) ==
  LET b == X_GET_BASE_NAME(class)
  IN  (IF level >= 9 \/ b = "" THEN <<>>
       ELSE RECURSIVE_CLASS_MEMBER_DECLARATION(b, level + 1))
      \o WRITE_CLASS_STRUCT_NESTED_MEMBERS(class)

RECURSIVE_CLASS_MEMBER_DECLARATIONS(class) ==
  RECURSIVE_CLASS_MEMBER_DECLARATION(class, 0)

\* STRUCT_HEADER(class) { RECURSIVE_CLASS_MEMBER_DECLARATIONS(class) } for
\* every class: the members of the struct, in the order of their offsets
STRUCT_HEADER ==
  [class \in Classes \cup DeepClasses \cup PrintableClasses \cup {"OBJECT"} |->
     RECURSIVE_CLASS_MEMBER_DECLARATIONS(class)]

\* the functions generated for a class (self->_destructor = <class>_destructor,
\* if (self->_destructor == NULL), ...) compile only if the struct of the
\* class has the member _destructor
Compiles(class) ==
  \E i \in 1..Len(STRUCT_HEADER[class]) : STRUCT_HEADER[class][i] = "_destructor"

\* sizeof(class), in slots
SizeOf(class) == Len(STRUCT_HEADER[class])

\* place of a member in the member list of a struct; a name that is no
\* member is given the place after the last member
IndexOfMember(members, member) ==
  IF \E i \in 1..Len(members) : members[i] = member
  THEN CHOOSE i \in 1..Len(members) : members[i] = member
  ELSE Len(members) + 1

\* offset (slot index) of self->member for self of type class*
OffsetOf(class, member) == IndexOfMember(STRUCT_HEADER[class], member)

\* the ancestor chain of a class, root (OBJECT) first
RECURSIVE Chain(_)
Chain(class) ==
  IF class = "" THEN <<>> ELSE Chain(X_GET_BASE_NAME(class)) \o <<class>>

\* GET_INHERITANCE_LEVEL: the macros count at most 9 levels
RECURSIVE INHERITANCE_LEVEL(_, _)
INHERITANCE_LEVEL(class, n) ==
  1 + (IF n <= 1 \/ X_GET_BASE_NAME(class) = "" THEN 0
       ELSE INHERITANCE_LEVEL(X_GET_BASE_NAME(class), n - 1))

GET_INHERITANCE_LEVEL(class) == 0 + INHERITANCE_LEVEL(class, 9)

\* -------------------------------------------------------- function pointers
HandlerIDs == {"h1", "h2"}

EventNames == {"on_move", "on_need_fuel"}

KindSeq == <<"destructor", "method", "cast", "handler">>

ClassSeq == <<"OBJECT", "Vehicle", "Car", "Elephant">> \o DeepSeq
            \o <<"BasePrintable", "DerivedPrintable">>

NameSeq == <<"_destructor", "estimate_price", "move", "park", "Moveable",
             "Sellable", "on_move", "on_need_fuel", "print", "Printable">>

\* faulty variant: the constructor also installs a method function the class
\* defines without an entry in its descriptor
MethodEntries_AllBodies(class) ==
  GET_IMPLEMENTS(class).methods \o GET_IMPLEMENTS(class).overrides
    \o (IF class = "DerivedPrintable" THEN <<"print">> ELSE <<>>)

\* the Method and Override entries of the descriptor of a class, in the
\* order in which the constructor walks them
MethodEntries(class) ==
  GET_IMPLEMENTS(class).methods \o GET_IMPLEMENTS(class).overrides

\* the method functions a program defines for a class with METHOD ...
\* END_METHOD: one for every entry, and DerivedPrintable_print, for which
\* the descriptor has no entry
MethodBodies(class) ==
  Range(MethodEntries(class))
    \cup (IF class = "DerivedPrintable" THEN {"print"} ELSE {})

IdSeq == <<"", "h1", "h2">>

IndexIn(s, x) == CHOOSE i \in 1..Len(s) : s[i] = x

\* the functions the macros generate: <class>_destructor, <class>_<method>,
\* <class>_to_<interface>, and the event handlers
\* ClassyC_<class>_<event>_hdlr_<handler_ID>
Functions ==
  {[kind |-> "destructor", cls |-> c, name |-> "_destructor", id |-> ""] :
      c \in Range(ClassSeq)}
  \cup
  {f \in [kind : {"method"}, cls : Classes \cup PrintableClasses,
           name : Range(NameSeq), id : {""}] :
      f.name \in MethodBodies(f.cls)}
  \cup
  {f \in [kind : {"cast"}, cls : Classes \cup PrintableClasses,
           name : Interfaces \cup {"Printable"}, id : {""}] :
      \E a \in Range(Chain(f.cls)) : f.name \in Range(GET_IMPLEMENTS(a).ifaces)}
  \cup
  [kind : {"handler"}, cls : Classes, name : EventNames, id : HandlerIDs]

\* the address of a function: a negative number, different for each function
AddressOf(f) ==
  0 - (IndexIn(IdSeq, f.id)
       + Len(IdSeq) * ((IndexIn(NameSeq, f.name) - 1)
       + Len(NameSeq) * ((IndexIn(ClassSeq, f.cls) - 1)
       + Len(ClassSeq) * (IndexIn(KindSeq, f.kind) - 1))))

NoFunction == [kind |-> "none", cls |-> "", name |-> "", id |-> ""]

\* the code segment: the function at every function address
Code ==
  [address \in {AddressOf(f) : f \in Functions} |->
     CHOOSE f \in Functions : AddressOf(f) = address]

\* the function a pointer value points to
FunctionAt(address) ==
  IF address \in DOMAIN Code THEN Code[address] ELSE NoFunction

PREFIXCONCAT(class, suffix) ==
  AddressOf([kind |-> "destructor", cls |-> class, name |-> suffix, id |-> ""])

MethodFunction(class, method_name) ==
  AddressOf([kind |-> "method", cls |-> class, name |-> method_name, id |-> ""])

\* <class>_to_<interface>
TRICAT(class, interface_name) ==
  AddressOf([kind |-> "cast", cls |-> class, name |-> interface_name, id |-> ""])

GET_EVENT_FUNC_NAME(class_name, event_name, handler_ID) ==
  AddressOf([kind |-> "handler", cls |-> class_name, name |-> event_name,
             id |-> handler_ID])

\* ------------------------------------------------------------------ memory
\* The operators below transform the machine state `st` of the program:
\*   mem[a]     the slots of the memory block at address a
\*   mtx[a]     the state of the mutex of the instance at a:
\*              "uninit", "ready" or "destroyed"
\*   heap[a]    "stack" (not heap memory), "unalloc", "alloc" or "freed"
\*   handle[a]  the caller's pointer variable for the heap block a (a or NULL)
\*   ret        the pointer the last constructor call returned
\*   created, destroyed   num_objects_created, num_objects_destroyed
\*   log        the steps executed by the operation, in order
\* A pointer to an instance is the address of its block; NULL is 0.

\* *(base + offset) = value
Store(m, offset, value) ==
  IF offset \in DOMAIN m THEN [m EXCEPT ![offset] = value] ELSE m

\* *(base + offset)
Load(m, offset) == IF offset \in DOMAIN m THEN m[offset] ELSE NULL

\* calloc / memset(.., 0, ..): n slots, all zero
Zeroed(n) == [i \in 1..n |-> 0]

\* one entry of the record of what an operation did, in order
Step(op, class, name, flag, arg) ==
  [op |-> op, cls |-> class, name |-> name, flag |-> flag, arg |-> arg,
   id |-> "", rcv |-> NULL]

Logged(st, step) == [st EXCEPT !.log = Append(st.log, step)]

\* self->member = value, for self of type class*; a store through a pointer
\* to no block (NULL) is recorded as the step "bad_access"
SetMember(st, self, class, member, value) ==
  IF self \in DOMAIN st.mem
  THEN [st EXCEPT !.mem[self] = Store(st.mem[self], OffsetOf(class, member), value)]
  ELSE Logged(st, Step("bad_access", class, member, FALSE, 0))

\* self->member, for self of type class*
GetMember(st, self, class, member) ==
  IF self \in DOMAIN st.mem THEN Load(st.mem[self], OffsetOf(class, member))
  ELSE NULL

\* ------------------------------------------------------------ construction
\* CLASSYC_MUTEX_INIT(self->mutex, mtx_recursive)
CLASSYC_MUTEX_INIT(class, self, st) ==
  Logged([st EXCEPT !.mtx[self] = "ready"],
         Step("mutex_init", class, "mutex", FALSE, 0))

\* CLASSYC_MUTEX_DESTROY(self->mutex)
CLASSYC_MUTEX_DESTROY(class, self, st) ==
  Logged([st EXCEPT !.mtx[self] = "destroyed"],
         Step("mutex_destroy", class, "mutex", FALSE, 0))

OBJECT_constructor(self, st) ==
  Logged([SetMember(st, self, "OBJECT", "_destructor",
                    PREFIXCONCAT("OBJECT", "_destructor"))
            EXCEPT !.ret = self],
         Step("set_destructor", "OBJECT", "_destructor", FALSE, 0))

WRITE_SET_DESTRUCTOR_FUNC_POINTER(class_name, self, st) ==
  Logged(SetMember(st, self, class_name, "_destructor",
                   PREFIXCONCAT(class_name, "_destructor")),
         Step("set_destructor", class_name, "_destructor", FALSE, 0))

\* faulty variant: a slot the base constructor has filled is left as it is
SET_METHOD_PTR_KeepsBase(class, method_name, self, st) ==
  IF GetMember(st, self, class, method_name) # NULL
  THEN Logged(st, Step("set_method", class, method_name, FALSE, 0))
  ELSE Logged(SetMember(st, self, class, method_name,
                        MethodFunction(class, method_name)),
              Step("set_method", class, method_name, FALSE, 0))

\* ((CLASS *)self_void)->method_name = CLASS_method_name
SET_METHOD_PTR(class, method_name, self, st) ==
  Logged(SetMember(st, self, class, method_name, MethodFunction(class, method_name)),
         Step("set_method", class, method_name, FALSE, 0))

\* a call returns the machine state `returned` before the statements after
\* it, Rest, run
AfterCall(returned, Rest(_)) == CHOOSE st \in {Rest(r) : r \in {returned}} : TRUE

\* GET_IMPLEMENTS(CLASS)(.., SET_METHOD_PTR, SET_METHOD_PTR): Method and
\* Override entries, in the order of the descriptor
RECURSIVE SetMethodPtrs(_, _, _, _)
SetMethodPtrs(class, names, self, st) ==
  IF names = <<>> THEN st
  ELSE SetMethodPtrs(class, Tail(names), self,
                     SET_METHOD_PTR(class, Head(names), self, st))

\* self->to_<interface> = CLASS_to_<interface>
WRITE_REGISTER_INTERFACE_CAST_FUNCTION(class, interface_name, self, st) ==
  Logged(SetMember(st, self, class, ToName(interface_name),
                   TRICAT(class, interface_name)),
         Step("set_cast", class, interface_name, FALSE, 0))

RECURSIVE WRITE_CLASS_REGISTER_INTERFACE_CAST_FUNCTIONS(_, _, _, _)
WRITE_CLASS_REGISTER_INTERFACE_CAST_FUNCTIONS(class, names, self, st) ==
  IF names = <<>> THEN st
  ELSE WRITE_CLASS_REGISTER_INTERFACE_CAST_FUNCTIONS(class, Tail(names), self,
         WRITE_REGISTER_INTERFACE_CAST_FUNCTION(class, Head(names), self, st))

\* the interfaces of every class of the chain of `of`, base first, are
\* registered with the cast functions of the class being constructed
RECURSIVE RECURSIVE_REGISTER_INTERFACE_CAST_FUNCTIONS(_, _, _, _, _)
RECURSIVE_REGISTER_INTERFACE_CAST_FUNCTIONS(class, of, level, self, st) ==
  LET b == X_GET_BASE_NAME(of)
  IN  AfterCall(IF level >= 9 \/ b = "" THEN st
                ELSE RECURSIVE_REGISTER_INTERFACE_CAST_FUNCTIONS(class, b, level + 1,
                                                                 self, st),
        LAMBDA st1 :
          WRITE_CLASS_REGISTER_INTERFACE_CAST_FUNCTIONS(class,
                                                        GET_IMPLEMENTS(of).ifaces,
                                                        self, st1))

\* CLASSYC_CHECK_INHERITANCE_DEPTH: TRUE iff the constructor returns NULL
CLASSYC_CHECK_INHERITANCE_DEPTH(class) == GET_INHERITANCE_LEVEL(class) > 9

\* calloc(1, sizeof(class)) returning the block `block`
Calloc(class, block, st) ==
  Logged([st EXCEPT !.mem[block] = Zeroed(SizeOf(class)), !.heap[block] = "alloc",
                    !.mtx[block] = "uninit"],
         Step("calloc", class, "", TRUE, 0))

\* faulty variant: the constructor of the base class is called after the
\* slots of the class are set
RECURSIVE ClassyC_constructor_BaseLast(_, _, _, _)
ClassyC_constructor_BaseLast(class, self_void, calloc_result, st) ==
  IF class = "OBJECT" THEN OBJECT_constructor(self_void, st)
  ELSE IF CLASSYC_CHECK_INHERITANCE_DEPTH(class) THEN [st EXCEPT !.ret = NULL]
  ELSE IF self_void = NULL /\ calloc_result = NULL
  THEN Logged([st EXCEPT !.ret = NULL], Step("calloc", class, "", FALSE, 0))
  ELSE
    LET self == IF self_void = NULL THEN calloc_result ELSE self_void
        st0 == IF self_void = NULL THEN Calloc(class, calloc_result, st) ELSE st
        st1 == WRITE_SET_DESTRUCTOR_FUNC_POINTER(class, self, st0)
        st2 == SetMethodPtrs(class, MethodEntries(class), self, st1)
        st3 == RECURSIVE_REGISTER_INTERFACE_CAST_FUNCTIONS(class, class, 0, self, st2)
        st4 == CLASSYC_MUTEX_INIT(class, self, st3)
        st5 == ClassyC_constructor_BaseLast(X_GET_BASE_NAME(class), self,
                                            calloc_result, st4)
    IN  [st5 EXCEPT !.ret = self]

\* <class>_constructor(self_void); calloc_result is what calloc returns if it
\* is called: a free block, or NULL
RECURSIVE ClassyC_constructor(_, _, _, _)
ClassyC_constructor(class, self_void, calloc_result, st) ==
  IF class = "OBJECT" THEN OBJECT_constructor(self_void, st)
  ELSE IF CLASSYC_CHECK_INHERITANCE_DEPTH(class) THEN [st EXCEPT !.ret = NULL]
  ELSE IF self_void = NULL /\ calloc_result = NULL
  THEN Logged([st EXCEPT !.ret = NULL], Step("calloc", class, "", FALSE, 0))
  ELSE
    LET self == IF self_void = NULL THEN calloc_result ELSE self_void
        st0 == IF self_void = NULL THEN Calloc(class, calloc_result, st) ELSE st
    IN  AfterCall(ClassyC_constructor(X_GET_BASE_NAME(class), self, calloc_result, st0),
          LAMBDA st1 :
            LET st2 == WRITE_SET_DESTRUCTOR_FUNC_POINTER(class, self, st1)
                st3 == SetMethodPtrs(class, MethodEntries(class), self, st2)
                st4 == RECURSIVE_REGISTER_INTERFACE_CAST_FUNCTIONS(class, class, 0,
                                                                   self, st3)
                st5 == CLASSYC_MUTEX_INIT(class, self, st4)
            IN  [st5 EXCEPT !.ret = self])

\* if (!is_base) num_objects_created++;
CountCreated(is_base, st) ==
  IF is_base THEN st ELSE [st EXCEPT !.created = @ + 1]

\* the statements a class writes between CONSTRUCTOR and END_CONSTRUCTOR,
\* after its INIT_BASE call if it has one
UserConstructorCode(class, is_base, self, arg, st) ==
  CASE class = "Car" ->
         CountCreated(is_base,
           SetMember(SetMember(SetMember(
             Logged(st, Step("user_init", class, "", is_base, arg)),
             self, "Car", "position", 0),
             self, "Car", "km_total", arg),
             self, "Car", "km_since_last_fuel", 0))
    [] class = "BasePrintable" ->
         SetMember(Logged(st, Step("user_init", class, "", is_base, arg)),
                   self, "BasePrintable", "base_num", arg)
    [] class = "DerivedPrintable" ->
         SetMember(Logged(st, Step("user_init", class, "", is_base, arg)),
                   self, "DerivedPrintable", "derived_num", arg)
    [] OTHER ->
         CountCreated(is_base,
           Logged(st, Step("user_init", class, "", is_base, arg)))

\* the classes of the program whose CONSTRUCTOR starts with INIT_BASE(...)
VARIABLE init_base

\* the sample: only Car has a base class with code to run, and calls it
SampleInitBase == {"Car"}

\* faulty variant: the code of the base class runs whether or not the class
\* calls INIT_BASE
CallsInitBase_Always(class) == TRUE

\* does the CONSTRUCTOR of the class start with INIT_BASE(...)
CallsInitBase(class) == class \in init_base

\* the argument of the INIT_BASE call of a class: INIT_BASE(base_num) in
\* DerivedPrintable, INIT_BASE() in the sample
InitBaseArg(class, arg) == IF class = "DerivedPrintable" THEN arg ELSE 0

\* return self;
Return(self, st) == [st EXCEPT !.ret = self]

RECURSIVE ClassyC_user_constructor(_, _, _, _, _, _)

\* faulty variant: the code of the class runs whatever the constructor returned
ClassyC_user_constructor_body_NoNullCheck(class, is_base, arg, calloc_result, st) ==
  Return(st.ret,
    UserConstructorCode(class, is_base, st.ret, arg,
      IF CallsInitBase(class)
      THEN ClassyC_user_constructor(X_GET_BASE_NAME(class), TRUE, st.ret,
                                    InitBaseArg(class, arg), calloc_result, st)
      ELSE st))

\* the part of <class>_user_constructor after the call of <class>_constructor,
\* which returned st.ret: if (!self_void) return NULL; INIT_BASE(), if the
\* class calls it; the code of the class; return self
ClassyC_user_constructor_body(class, is_base, arg, calloc_result, st) ==
  IF st.ret = NULL THEN st
  ELSE Return(st.ret,
         UserConstructorCode(class, is_base, st.ret, arg,
           IF CallsInitBase(class)
           THEN ClassyC_user_constructor(X_GET_BASE_NAME(class), TRUE, st.ret,
                                         InitBaseArg(class, arg), calloc_result, st)
           ELSE st))

\* <class>_user_constructor(is_base, self_void, arg): the constructor is
\* called unless is_base
ClassyC_user_constructor(class, is_base, self_void, arg, calloc_result, st) ==
  IF class = "OBJECT" THEN Return(self_void, st)
  ELSE ClassyC_user_constructor_body(class, is_base, arg, calloc_result,
         IF ~is_base THEN ClassyC_constructor(class, self_void, calloc_result, st)
         ELSE Return(self_void, st))

\* handle = <the pointer the call returned>
AssignHandle(block, st) == [st EXCEPT !.handle[block] = st.ret]

\* handle = NEW_ALLOC(class_name, arg), the handle being the pointer variable
\* of block `block`
NEW_ALLOC(class_name, block, arg, calloc_result, st) ==
  AssignHandle(block,
    ClassyC_user_constructor(class_name, FALSE, NULL, arg, calloc_result, st))

\* faulty variant: the memory is not set to zero before the constructor
NEW_INPLACE_NoMemset(class_name, object_address, arg, st) ==
  ClassyC_user_constructor(class_name, FALSE, object_address, arg, NULL,
                           [st EXCEPT !.mtx[object_address] = "uninit"])

\* NEW_INPLACE(class_name, object_address, arg): memset, then the constructor
NEW_INPLACE(class_name, object_address, arg, st) ==
  LET n   == SizeOf(class_name)
      st0 == Logged([st EXCEPT !.mem[object_address] =
                                  [i \in DOMAIN st.mem[object_address] |->
                                     IF i <= n THEN 0 ELSE st.mem[object_address][i]],
                               !.mtx[object_address] = "uninit"],
                    Step("memset", class_name, "", FALSE, 0))
  IN  ClassyC_user_constructor(class_name, FALSE, object_address, arg, NULL, st0)

\* ------------------------------------------------------------- destruction
\* faulty variant: the code counts a destroyed object only the first time
UserDestructorCode_CountsOnce(class, is_base, self, st) ==
  LET st1 == Logged(st, Step("user_cleanup", class, "", is_base, 0))
  IN  IF is_base \/ class \in PrintableClasses \/ st.destroyed > 0 THEN st1
      ELSE [st1 EXCEPT !.destroyed = @ + 1]

\* the statements a class writes between DESTRUCTOR and END_DESTRUCTOR:
\* if (!is_base) num_objects_destroyed++ in the sample, none in the test
UserDestructorCode(class, is_base, self, st) ==
  LET st1 == Logged(st, Step("user_cleanup", class, "", is_base, 0))
  IN  IF is_base \/ class \in PrintableClasses THEN st1
      ELSE [st1 EXCEPT !.destroyed = @ + 1]

\* faulty variant: the destructor of the base class runs before the cleanup
\* code of the class
RECURSIVE ClassyC_user_destructor_BaseFirst(_, _, _, _)
ClassyC_user_destructor_BaseFirst(class, is_base, self_void, st) ==
  IF class = "OBJECT" \/ self_void = NULL THEN st
  ELSE
    LET st1 == ClassyC_user_destructor_BaseFirst(X_GET_BASE_NAME(class), TRUE,
                                                 self_void, st)
        st2 == UserDestructorCode(class, is_base, self_void, st1)
    IN  Logged(SetMember(st2, self_void, class, "_destructor", NULL),
               Step("mark_destroyed", class, "_destructor", FALSE, 0))

\* faulty variant: END_DESTRUCTOR does not set self->_destructor to NULL
RECURSIVE ClassyC_user_destructor_NoMark(_, _, _, _)
ClassyC_user_destructor_NoMark(class, is_base, self_void, st) ==
  IF class = "OBJECT" \/ self_void = NULL THEN st
  ELSE
    AfterCall(UserDestructorCode(class, is_base, self_void, st),
      LAMBDA st1 :
        ClassyC_user_destructor_NoMark(X_GET_BASE_NAME(class), TRUE, self_void, st1))

\* self->method_name = NULL for the names given
RECURSIVE ClearMethodPtrs(_, _, _, _)
ClearMethodPtrs(class, names, self, st) ==
  IF names = <<>> THEN st
  ELSE ClearMethodPtrs(class, Tail(names), self,
                       SetMember(st, self, class, Head(names), NULL))

\* faulty variant: END_DESTRUCTOR also sets the method pointers of the class
\* to NULL
RECURSIVE ClassyC_user_destructor_ClearsMethods(_, _, _, _)
ClassyC_user_destructor_ClearsMethods(class, is_base, self_void, st) ==
  IF class = "OBJECT" \/ self_void = NULL THEN st
  ELSE
    AfterCall(UserDestructorCode(class, is_base, self_void, st),
      LAMBDA st1 :
        AfterCall(ClassyC_user_destructor_ClearsMethods(X_GET_BASE_NAME(class), TRUE,
                                                        self_void, st1),
          LAMBDA st2 :
            Logged(SetMember(ClearMethodPtrs(class, GET_IMPLEMENTS(class).methods,
                                             self_void, st2),
                             self_void, class, "_destructor", NULL),
                   Step("mark_destroyed", class, "_destructor", FALSE, 0))))

\* <class>_user_destructor(is_base, self_void), closed by END_DESTRUCTOR
RECURSIVE ClassyC_user_destructor(_, _, _, _)
ClassyC_user_destructor(class, is_base, self_void, st) ==
  IF class = "OBJECT" \/ self_void = NULL THEN st
  ELSE
    AfterCall(UserDestructorCode(class, is_base, self_void, st),
      LAMBDA st1 :
        AfterCall(ClassyC_user_destructor(X_GET_BASE_NAME(class), TRUE, self_void, st1),
          LAMBDA st2 :
            Logged(SetMember(st2, self_void, class, "_destructor", NULL),
                   Step("mark_destroyed", class, "_destructor", FALSE, 0))))

\* faulty variant: the destructor does not look at self->_destructor
ClassyC_destructor_NoGuard(class, self_void, st) ==
  IF class = "OBJECT" THEN st
  ELSE IF self_void = NULL THEN st
  ELSE CLASSYC_MUTEX_DESTROY(class, self_void,
         ClassyC_user_destructor(class, FALSE, self_void, st))

\* faulty variant: the mutex is destroyed before the user destructor runs
ClassyC_destructor_MutexFirst(class, self_void, st) ==
  IF class = "OBJECT" THEN st
  ELSE IF self_void = NULL \/ GetMember(st, self_void, class, "_destructor") = NULL
  THEN st
  ELSE ClassyC_user_destructor(class, FALSE, self_void,
         CLASSYC_MUTEX_DESTROY(class, self_void, st))

\* <class>_destructor(self_void)
ClassyC_destructor(class, self_void, st) ==
  IF class = "OBJECT" THEN st
  ELSE IF self_void = NULL \/ GetMember(st, self_void, class, "_destructor") = NULL
  THEN st
  ELSE CLASSYC_MUTEX_DESTROY(class, self_void,
         ClassyC_user_destructor(class, FALSE, self_void, st))

\* free(ptr)
Free(ptr, st) ==
  Logged([st EXCEPT !.heap[ptr] = "freed", !.mem[ptr] = <<>>],
         Step("free", "", "", FALSE, 0))

\* if (*self_ptr) { free(*self_ptr); *self_ptr = NULL; }
FreeAndNull(block, st) ==
  IF st.handle[block] # NULL
  THEN [Free(st.handle[block], st) EXCEPT !.handle[block] = NULL]
  ELSE st

\* faulty variant: the pointer destructor leaves the memory to the caller
ClassyC_ptr_destructor_NoFree(class, block, st) ==
  ClassyC_destructor(class, st.handle[block], st)

\* <class>_ptr_destructor(&handle), the handle being the pointer variable of
\* block `block`
ClassyC_ptr_destructor(class, block, st) ==
  FreeAndNull(block, ClassyC_destructor(class, st.handle[block], st))

\* the call of function f as a destructor
CallDestructor(f, self, st) ==
  IF f.kind = "destructor" THEN ClassyC_destructor(f.cls, self, st)
  ELSE Logged(st, Step("bad_call", f.cls, f.name, FALSE, 0))

\* (obj)->_destructor(obj): the call through the destructor pointer
CallDestructorPointer(address, self, st) ==
  CallDestructor(FunctionAt(address), self, st)

\* DESTROY_FREE(obj_name): obj_name is the pointer variable of block `block`,
\* of type class*
DESTROY_FREE(class, block, st) ==
  LET obj == st.handle[block]
  IN  IF obj # NULL /\ GetMember(st, obj, class, "_destructor") # NULL
      THEN [Free(obj, CallDestructorPointer(
                        GetMember(st, obj, class, "_destructor"), obj, st))
              EXCEPT !.handle[block] = NULL]
      ELSE st

\* DESTROY(object_name), object_name an object of type class at address obj
DESTROY(class, obj, st) ==
  IF GetMember(st, obj, class, "_destructor") # NULL
  THEN CallDestructorPointer(GetMember(st, obj, class, "_destructor"), obj, st)
  ELSE st

\* ------------------------------------------------------------------ events
\* the call of function f as an event handler: the handlers of the sample
\* only print
RunHandler(f, self, arg, st) ==
  IF f.kind = "handler"
  THEN Logged(st, [op |-> "handler", cls |-> f.cls, name |-> f.name,
                   flag |-> FALSE, arg |-> arg, id |-> f.id, rcv |-> self])
  ELSE Logged(st, Step("bad_call", f.cls, f.name, FALSE, 0))

\* the call through an event pointer
CallHandler(address, self, arg, st) == RunHandler(FunctionAt(address), self, arg, st)

\* faulty variant: a handler that is already registered is kept
REGISTER_EVENT_KeepsFirst(class_name, event_name, handler_ID, view, instance_name, st) ==
  IF GetMember(st, instance_name, view, event_name) # NULL THEN st
  ELSE SetMember(st, instance_name, view, event_name,
                 GET_EVENT_FUNC_NAME(class_name, event_name, handler_ID))

\* faulty variant: the handler is stored for the event in every object
REGISTER_EVENT_Shared(class_name, event_name, handler_ID, view, instance_name, st) ==
  [st EXCEPT !.mem = [b \in DOMAIN st.mem |->
                        IF st.mem[b] = <<>> THEN st.mem[b]
                        ELSE Store(st.mem[b], OffsetOf(view, event_name),
                                   GET_EVENT_FUNC_NAME(class_name, event_name,
                                                       handler_ID))]]

\* REGISTER_EVENT(class_name, event_name, handler_ID, instance_name), the
\* instance pointer being of type view*
REGISTER_EVENT(class_name, event_name, handler_ID, view, instance_name, st) ==
  SetMember(st, instance_name, view, event_name,
            GET_EVENT_FUNC_NAME(class_name, event_name, handler_ID))

\* RAISE_EVENT(instance_name, event_name, arg), the instance pointer being of
\* type view*
RAISE_EVENT(view, instance_name, event_name, arg, st) ==
  IF GetMember(st, instance_name, view, event_name) # NULL
  THEN CallHandler(GetMember(st, instance_name, view, event_name),
                   instance_name, arg, st)
  ELSE st

\* *pointer = value
StoreAt(st, pointer, value) ==
  [st EXCEPT !.mem[pointer.blk] = Store(@, pointer.off, value)]

\* &self->member: the block and the offset in it
AddressOfMember(self, class, member) ==
  [blk |-> self, off |-> OffsetOf(class, member)]

\* *pointer
Deref(st, pointer) == Load(st.mem[pointer.blk], pointer.off)

\* faulty variant: the address is taken in the struct of the base class
WRITE_I_DATA_MEMBER_INITIALIZER_BaseStruct(class, self, member_name) ==
  AddressOfMember(self, X_GET_BASE_NAME(class), member_name)

\* faulty variant: the address is taken in the struct of the base class
WRITE_I_EVENT_MEMBER_INITIALIZER_BaseStruct(class, self, event_name) ==
  AddressOfMember(self, X_GET_BASE_NAME(class), event_name)

\* .member_name = &self->member_name
WRITE_I_DATA_MEMBER_INITIALIZER(class, self, member_name) ==
  AddressOfMember(self, class, member_name)

\* .event_name = &self->event_name
WRITE_I_EVENT_MEMBER_INITIALIZER(class, self, event_name) ==
  AddressOfMember(self, class, event_name)

\* faulty variant: the interface gets the function of the base class
WRITE_I_METHOD_PTR_INITIALIZER_OfBase(class, self, method_name, st) ==
  IF X_GET_BASE_NAME(class) = "OBJECT" THEN MethodFunction(class, method_name)
  ELSE MethodFunction(X_GET_BASE_NAME(class), method_name)

\* .method_name = self->method_name
WRITE_I_METHOD_PTR_INITIALIZER(class, self, method_name, st) ==
  GetMember(st, self, class, method_name)

\* <class>_to_<interface>(self_void): the interface struct
WRITE_INTERFACE_CAST_FUNCTION(class, interface_name, self, st) ==
  LET d == GET_INTERFACE(interface_name)
  IN  [iface   |-> interface_name,
       self    |-> self,
       data    |-> [x \in Range(d.data) |->
                      WRITE_I_DATA_MEMBER_INITIALIZER(class, self, x)],
       events  |-> [x \in Range(d.events) |->
                      WRITE_I_EVENT_MEMBER_INITIALIZER(class, self, x)],
       methods |-> [x \in Range(d.methods) |->
                      WRITE_I_METHOD_PTR_INITIALIZER(class, self, x, st)]]

\* no interface struct
NoProjection ==
  [iface |-> "", self |-> NULL, data |-> [x \in {} |-> NULL],
   events |-> [x \in {} |-> NULL], methods |-> [x \in {} |-> NULL]]

\* the call of function f as an interface cast function
CallCast(f, object, st) ==
  IF f.kind = "cast" THEN WRITE_INTERFACE_CAST_FUNCTION(f.cls, f.name, object, st)
  ELSE NoProjection

\* object->to_<interface>(object), object of type view*
CallCastPointer(view, interface_name, object, st) ==
  CallCast(FunctionAt(GetMember(st, object, view, ToName(interface_name))),
           object, st)

\* RAISE_INTERFACE_EVENT(interface_struct, event_name, arg)
RAISE_INTERFACE_EVENT(interface_struct, event_name, arg, st) ==
  IF Deref(st, interface_struct.events[event_name]) # NULL
  THEN CallHandler(Deref(st, interface_struct.events[event_name]),
                   interface_struct.self, arg, st)
  ELSE st

\* abs(x)
abs(x) == IF x < 0 THEN 0 - x ELSE x

\* the two RAISE_INTERFACE_EVENT calls that end swap_movables_position
swap_raise_events(object1, object2, distance_moved, st) ==
  RAISE_INTERFACE_EVENT(object2, "on_move", distance_moved,
    RAISE_INTERFACE_EVENT(object1, "on_move", distance_moved, st))

\* *object1.position = *object2.position; *object2.position = temp
swap_stores(object1, object2, temp, st) ==
  StoreAt(StoreAt(st, object1.data["position"], Deref(st, object2.data["position"])),
          object2.data["position"], temp)

\* faulty variant: no temporary, the second store copies the value just stored
swap_movables_position_NoTemp(object1, object2, st) ==
  swap_raise_events(object1, object2,
    abs(Deref(st, object1.data["position"]) - Deref(st, object2.data["position"])),
    StoreAt(st, object1.data["position"], Deref(st, object2.data["position"])))

\* swap_movables_position(object1, object2) of classyc_sample.c
swap_movables_position(object1, object2, st) ==
  swap_raise_events(object1, object2,
    abs(Deref(st, object1.data["position"]) - Deref(st, object2.data["position"])),
    swap_stores(object1, object2, Deref(st, object1.data["position"]), st))

\* ----------------------------------------------------------------- methods
\* the METHOD bodies of classyc_sample.c
Vehicle_estimate_price(self, st) == [st EXCEPT !.result = 1000]

Car_estimate_price(self, st) == [st EXCEPT !.result = 15000]

\* self->member += amount, for self of type class*
AddToMember(st, self, class, member, amount) ==
  SetMember(st, self, class, member, GetMember(st, self, class, member) + amount)

Vehicle_move(self, speed, distance, st) ==
  RAISE_EVENT("Vehicle", self, "on_move", distance,
              AddToMember(st, self, "Vehicle", "position", distance))

\* faulty variant: the event is raised also when exactly 100 km are left
Car_move_need_fuel_AtMost(self, km_to_collapse, st) ==
  IF km_to_collapse <= 100
  THEN RAISE_EVENT("Car", self, "on_need_fuel", km_to_collapse, st)
  ELSE st

\* if (km_to_collapse < 100) RAISE_EVENT(self, on_need_fuel, km_to_collapse)
Car_move_need_fuel(self, km_to_collapse, st) ==
  IF km_to_collapse < 100
  THEN RAISE_EVENT("Car", self, "on_need_fuel", km_to_collapse, st)
  ELSE st

\* int km_to_collapse = 400 - self->km_since_last_fuel, and what follows
Car_move_km_to_collapse(self, st) ==
  Car_move_need_fuel(self, 400 - GetMember(st, self, "Car", "km_since_last_fuel"),
                     st)

Car_move(self, speed, distance, st) ==
  Car_move_km_to_collapse(self,
    AddToMember(AddToMember(st, self, "Car", "position", distance),
                self, "Car", "km_since_last_fuel", distance))

Car_park(self, st) == SetMember(st, self, "Car", "position", 0)

Elephant_move(self, speed, distance, st) ==
  AddToMember(st, self, "Elephant", "position", distance)

\* the body of method function f, entered with receiver self
RunMethod(f, self, speed, distance, st) ==
  CASE f.cls = "Vehicle" /\ f.name = "estimate_price"
         -> Vehicle_estimate_price(self, st)
    [] f.cls = "Car" /\ f.name = "estimate_price"
         -> Car_estimate_price(self, st)
    [] f.cls = "Vehicle" /\ f.name = "move"
         -> Vehicle_move(self, speed, distance, st)
    [] f.cls = "Car" /\ f.name = "move"
         -> Car_move(self, speed, distance, st)
    [] f.cls = "Car" /\ f.name = "park"
         -> Car_park(self, st)
    [] f.cls = "Elephant" /\ f.name = "move"
         -> Elephant_move(self, speed, distance, st)
    [] f.cls \in PrintableClasses /\ f.name = "print"
         -> st

\* the call of function f as a method with receiver self
CallMethodFunction(f, self, speed, distance, st) ==
  IF f.kind = "method"
  THEN RunMethod(f, self, speed, distance,
                 Logged(st, [op |-> "method", cls |-> f.cls, name |-> f.name,
                             flag |-> FALSE, arg |-> distance, id |-> "",
                             rcv |-> self]))
  ELSE Logged(st, Step("bad_call", f.cls, f.name, FALSE, 0))

\* the call of the function at `address` with receiver self
CallFunction(address, self, speed, distance, st) ==
  CallMethodFunction(FunctionAt(address), self, speed, distance, st)

\* object->method_name(object, speed, distance), object of type view*
CallMethodPointer(view, method_name, object, speed, distance, st) ==
  CallFunction(GetMember(st, object, view, method_name), object, speed, distance, st)

\* ----------------------------------------------------------- state machine
VARIABLES
  mem,                    \* the slots of every memory block
  mtx,                    \* the mutex of the instance in every block
  heap,                   \* allocation state of every block
  handle,                 \* the caller's pointer variable for every heap block
  num_objects_created,    \* global counter of the sample
  num_objects_destroyed,  \* global counter of the sample
  proj,                   \* the interface struct the caller holds for every block
  inuse,                  \* the blocks the program uses
  log,                    \* the steps of the last operation
  lastOp,                 \* the last operation and its results
  obs                     \* history of every block, kept for the properties

\* the program that calls an asynchronous method of an AsyncClass instance
VARIABLES
  threads_supported,      \* CLASSYC_THREADS_SUPPORTED of the build
  clock,                  \* the data members of the AsyncClass instance
  holds,                  \* how often every thread has locked its mutex
  args,                   \* the argument structs the wrappers allocate
  worker,                 \* the thread function of every invocation
  main                    \* the thread that calls the asynchronous method

asyncVars == <<threads_supported, clock, holds, args, worker, main>>

vars == <<mem, mtx, heap, handle, num_objects_created, num_objects_destroyed,
          proj, inuse, log, lastOp, obs, init_base, asyncVars>>

\* block 1 is the heap block calloc hands out, block 2 an object on the stack
HeapBlocks == {1}

StackBlocks == {2}

Blocks == HeapBlocks \cup StackBlocks

\* the stack object is storage large enough for any class
StorageSize == SizeOf(CHOOSE c \in Classes : \A d \in Classes : SizeOf(d) <= SizeOf(c))

\* what uninitialised stack memory may hold, slot by slot
Garbage == {0, 79}

\* km_total_when_bought
ConstructorArgs == {200}

\* distance of a move call
Distances == {350}

\* values the caller writes to a data member
DataValues == {24}

\* the data members the caller writes directly
WritableData == {"id", "position"}

NoOp == [op |-> "", obj |-> NULL, view |-> "", name |-> "", id |-> "",
         arg |-> 0, ret |-> NULL, result |-> 0]

\* no handler was registered
NoHandler == [cls |-> "", id |-> ""]

\* history of a block: the class of the instance constructed in it, the
\* destruction calls made on it, how often the cleanup code of every class ran,
\* how often its memory was released, the handler last registered for every
\* event, and the events registered after the interface struct in proj was
\* obtained
NoObs == [cls |-> "", calls |-> 0, cleanups |-> [c \in Classes |-> 0],
          frees |-> 0,
          reg |-> [e \in EventNames |-> NoHandler], late |-> {}]

\* the invocations of start_clock the program makes on the instance
Invocations == {1, 2}

\* the caller's thread, and the thread of every invocation
Threads == {0} \cup Invocations

\* the addresses calloc can return for an argument struct
ArgsAddresses == {1, 2}

\* *arg: the seconds after which the clock stops by itself
ClockArgs == {1, 2}

\* the thrd_t value that names the thread of invocation i
ThreadId(i) == 10 + i

\* thrd_error: 0 in the definitions used without threads; with threads the
\* value of the thread library, which is no thread identifier
thrd_error == IF threads_supported THEN 2 ELSE 0

\* no value was assigned to the thrd_t variable yet
NoThread == -1

\* what a read of memory that was freed can yield
FreedMemoryValues == {thrd_error} \cup {ThreadId(i) : i \in Invocations}

NoArgs == [state |-> "unalloc", self_void |-> NULL, arg |-> 0, thread_id |-> 0]

\* the thread function of an invocation: where it is, the thread it runs on,
\* its local variables, whether its thread was detached, and how often it
\* freed its argument struct
NoWorker == [pc |-> "none", on |-> 0, args_struct |-> NULL, thread_id |-> 0,
             arg |-> 0, detached |-> FALSE, frees |-> 0]

\* the caller: where it is, the invocation it works on, the thrd_t variable
\* it keeps for every invocation, whether the invocation started a thread
\* function, its AWAIT (not made, waiting, or what it returned), and the
\* number of stop_clock calls
NoMain == [pc |-> "idle", on |-> 0,
           thread_id |-> [i \in Invocations |-> NoThread],
           outcome |-> [i \in Invocations |-> "none"],
           await |-> [i \in Invocations |-> "no"],
           stops |-> 0]

\* the instance after its constructor, before any call
AsyncStart ==
  /\ clock = [total_seconds_elapsed |-> 0, clock_is_running |-> FALSE,
              continue_running |-> TRUE]
  /\ holds = [t \in Threads |-> 0]
  /\ args = [a \in ArgsAddresses |-> NoArgs]
  /\ worker = [i \in Invocations |-> NoWorker]
  /\ main = NoMain

\* the state of a program before it constructs anything
Start ==
  /\ AsyncStart
  /\ \E g \in Garbage :
       mem = [a \in Blocks |-> IF a \in HeapBlocks \/ a \notin inuse THEN <<>>
                                ELSE [i \in 1..StorageSize |-> g]]
  /\ mtx = [a \in Blocks |-> "uninit"]
  /\ heap = [a \in Blocks |-> IF a \in HeapBlocks THEN "unalloc" ELSE "stack"]
  /\ handle = [a \in HeapBlocks |-> NULL]
  /\ num_objects_created = 0
  /\ num_objects_destroyed = 0
  /\ proj = [a \in Blocks |-> NoProjection]
  /\ log = <<>>
  /\ lastOp = NoOp
  /\ obs = [a \in Blocks |-> NoObs]

\* a program that works with one object: on the heap, or on the stack
Init ==
  /\ \E a \in Blocks : inuse = {a}
  /\ Start
  /\ init_base = SampleInitBase
  /\ threads_supported = TRUE

\* the machine state before an operation
Machine ==
  [mem |-> mem, mtx |-> mtx, heap |-> heap, handle |-> handle, ret |-> NULL,
   result |-> 0, created |-> num_objects_created,
   destroyed |-> num_objects_destroyed, log |-> <<>>]

\* the machine state after an operation
Commit(st) ==
  /\ mem' = st.mem
  /\ mtx' = st.mtx
  /\ heap' = st.heap
  /\ handle' = st.handle
  /\ num_objects_created' = st.created
  /\ num_objects_destroyed' = st.destroyed
  /\ log' = st.log
  /\ inuse' = inuse
  /\ init_base' = init_base
  /\ UNCHANGED asyncVars

\* the pointer through which the caller reaches block a
PointerTo(a) == IF a \in HeapBlocks THEN handle[a] ELSE a

\* an instance was constructed in block a and its memory is still there
Usable(a) ==
  /\ a \in inuse
  /\ obs[a].cls # ""
  /\ PointerTo(a) # NULL
  /\ heap[a] \in {"stack", "alloc"}

\* the instance in block a is constructed and no destruction call was made
Live(a) == Usable(a) /\ obs[a].calls = 0

\* the types through which an instance of class c can be viewed
ViewsOf(c) == Range(Chain(c)) \ {"OBJECT", ""}

VisibleMembers(view, kind) ==
  UNION {Range(GET_IMPLEMENTS(c)[kind]) : c \in ViewsOf(view)}

CountSteps(steps, op, class) ==
  Cardinality({i \in 1..Len(steps) : steps[i].op = op /\ steps[i].cls = class})

\* history of block a after a destruction call that executed `steps`
Destroyed(a, steps) ==
  [obs EXCEPT ![a].calls = @ + 1,
              ![a].cleanups = [c \in Classes |->
                                 @[c] + CountSteps(steps, "user_cleanup", c)],
              ![a].frees = @ + CountSteps(steps, "free", "")]

\* handle = NEW_ALLOC(c, arg)
NewAlloc(b, c, arg, ok) ==
  /\ b \in inuse
  /\ handle[b] = NULL
  /\ heap[b] \in {"unalloc", "freed"}
  /\ num_objects_created < MaxCreated
  /\ \E st \in {NEW_ALLOC(c, b, arg, IF ok THEN b ELSE NULL, Machine)} :
         /\ Commit(st)
         /\ lastOp' = [NoOp EXCEPT !.op = "NEW_ALLOC", !.obj = b, !.view = c,
                                   !.arg = arg, !.ret = st.ret]
         /\ obs' = IF st.ret # NULL THEN [obs EXCEPT ![b] = [NoObs EXCEPT !.cls = c]]
                   ELSE obs
         /\ proj' = [proj EXCEPT ![b] = NoProjection]

\* NEW_INPLACE(c, &object, arg)
NewInplace(a, c, arg) ==
  /\ a \in inuse
  /\ ~Live(a)
  /\ num_objects_created < MaxCreated
  /\ \E st \in {NEW_INPLACE(c, a, arg, Machine)} :
         /\ Commit(st)
         /\ lastOp' = [NoOp EXCEPT !.op = "NEW_INPLACE", !.obj = a, !.view = c,
                                   !.arg = arg, !.ret = st.ret]
         /\ obs' = IF st.ret # NULL THEN [obs EXCEPT ![a] = [NoObs EXCEPT !.cls = c]]
                   ELSE obs
         /\ proj' = [proj EXCEPT ![a] = NoProjection]

\* DESTROY(object) on the object in block a, seen as type view
Destroy(a, view) ==
  /\ Usable(a)
  /\ view \in ViewsOf(obs[a].cls)
  /\ obs[a].calls < MaxDestroyCalls
  /\ \E st \in {DESTROY(view, PointerTo(a), Machine)} :
         /\ Commit(st)
         /\ lastOp' = [NoOp EXCEPT !.op = "DESTROY", !.obj = a, !.view = view]
         /\ obs' = Destroyed(a, st.log)
         /\ UNCHANGED proj

\* DESTROY(object) as the only destruction call on the object
DestroyOnce(a, view) == Live(a) /\ Destroy(a, view)

\* DESTROY_FREE(handle), the handle of block b being of type view*
DestroyFree(b, view) ==
  /\ b \in inuse
  /\ obs[b].cls # ""
  /\ view \in ViewsOf(obs[b].cls)
  /\ obs[b].calls < MaxDestroyCalls
  /\ \E st \in {DESTROY_FREE(view, b, Machine)} :
         /\ Commit(st)
         /\ lastOp' = [NoOp EXCEPT !.op = "DESTROY_FREE", !.obj = b, !.view = view]
         /\ obs' = Destroyed(b, st.log)
         /\ proj' = IF st.heap[b] = "freed" THEN [proj EXCEPT ![b] = NoProjection]
                    ELSE proj

\* <class>_destructor(pointer) called directly, class the class of the instance
DirectDestructor(a) ==
  /\ a \in inuse
  /\ obs[a].cls # ""
  /\ heap[a] \in {"stack", "alloc"} \/ PointerTo(a) = NULL
  /\ obs[a].calls < MaxDestroyCalls
  /\ \E st \in {ClassyC_destructor(obs[a].cls, PointerTo(a), Machine)} :
         /\ Commit(st)
         /\ lastOp' = [NoOp EXCEPT !.op = "destructor", !.obj = a,
                                   !.view = obs[a].cls]
         /\ obs' = Destroyed(a, st.log)
         /\ UNCHANGED proj

\* REGISTER_EVENT(view, e, id, pointer)
RegisterEvent(a, view, e, id) ==
  /\ Usable(a)
  /\ view \in ViewsOf(obs[a].cls)
  /\ e \in VisibleMembers(view, "events")
  /\ \E st \in {REGISTER_EVENT(view, e, id, view, PointerTo(a), Machine)} :
         /\ Commit(st)
         /\ lastOp' = [NoOp EXCEPT !.op = "REGISTER_EVENT", !.obj = a,
                                   !.view = view, !.name = e, !.id = id]
         /\ obs' = [obs EXCEPT ![a].reg[e] = [cls |-> view, id |-> id],
                               ![a].late = IF e \in DOMAIN proj[a].events
                                           THEN @ \cup {e} ELSE @]
         /\ UNCHANGED proj

\* RAISE_EVENT(pointer, e, arg)
RaiseEvent(a, view, e, arg) ==
  /\ Usable(a)
  /\ view \in ViewsOf(obs[a].cls)
  /\ e \in VisibleMembers(view, "events")
  /\ \E st \in {RAISE_EVENT(view, PointerTo(a), e, arg, Machine)} :
         /\ Commit(st)
         /\ lastOp' = [NoOp EXCEPT !.op = "RAISE_EVENT", !.obj = a, !.view = view,
                                   !.name = e, !.arg = arg]
         /\ UNCHANGED <<obs, proj>>

\* projection = pointer->to_<interface>(pointer), whatever destruction
\* calls were made on the instance
CastCall(a, view, i) ==
  /\ Usable(a)
  /\ view \in ViewsOf(obs[a].cls)
  /\ i \in VisibleMembers(view, "ifaces")
  /\ proj' = [proj EXCEPT ![a] = CallCastPointer(view, i, PointerTo(a), Machine)]
  /\ Commit(Machine)
  /\ lastOp' = [NoOp EXCEPT !.op = "project", !.obj = a, !.view = view, !.name = i]
  /\ obs' = [obs EXCEPT ![a].late = {}]

\* projection = pointer->to_<interface>(pointer) on an instance that was not
\* destroyed
Project(a, view, i) == Live(a) /\ CastCall(a, view, i)

\* RAISE_INTERFACE_EVENT(projection, e, arg)
RaiseInterfaceEvent(a, e, arg) ==
  /\ Usable(a)
  /\ proj[a] # NoProjection
  /\ e \in DOMAIN proj[a].events
  /\ \E st \in {RAISE_INTERFACE_EVENT(proj[a], e, arg, Machine)} :
         /\ Commit(st)
         /\ lastOp' = [NoOp EXCEPT !.op = "RAISE_INTERFACE_EVENT", !.obj = a,
                                   !.view = proj[a].iface, !.name = e, !.arg = arg]
         /\ UNCHANGED <<obs, proj>>

\* pointer->member = value
WriteData(a, view, member, value) ==
  /\ Live(a)
  /\ view \in ViewsOf(obs[a].cls)
  /\ member \in VisibleMembers(view, "data") \cap WritableData
  /\ \E st \in {SetMember(Machine, PointerTo(a), view, member, value)} :
         /\ Commit(st)
         /\ lastOp' = [NoOp EXCEPT !.op = "write", !.obj = a, !.view = view,
                                   !.name = member, !.arg = value]
         /\ UNCHANGED <<obs, proj>>

\* *projection.member = value
WriteThroughProjection(a, member, value) ==
  /\ Live(a)
  /\ proj[a] # NoProjection
  /\ member \in DOMAIN proj[a].data
  /\ Commit(StoreAt(Machine, proj[a].data[member], value))
  /\ lastOp' = [NoOp EXCEPT !.op = "write_projection", !.obj = a,
                            !.view = proj[a].iface, !.name = member, !.arg = value]
  /\ UNCHANGED <<obs, proj>>

\* pointer->method(pointer, 50, distance), whatever destruction calls were
\* made on the instance
MethodCall(a, view, method, distance) ==
  /\ Usable(a)
  /\ view \in ViewsOf(obs[a].cls)
  /\ method \in VisibleMembers(view, "methods")
  /\ method = "move" =>
       \A counter \in {"position", "km_since_last_fuel"} :
          GetMember(Machine, PointerTo(a), obs[a].cls, counter) + distance
            <= MaxPosition
  /\ \E st \in {CallMethodPointer(view, method, PointerTo(a), 50, distance, Machine)} :
         /\ Commit(st)
         /\ lastOp' = [NoOp EXCEPT !.op = "call", !.obj = a, !.view = view,
                                   !.name = method, !.arg = distance,
                                   !.result = st.result]
         /\ UNCHANGED <<obs, proj>>

\* pointer->method(pointer, 50, distance) on an instance that was not destroyed
CallMethod(a, view, method, distance) == Live(a) /\ MethodCall(a, view, method, distance)

\* the program constructs, uses and destroys an object
Next ==
  \/ \E b \in HeapBlocks, c \in Classes, arg \in ConstructorArgs, ok \in BOOLEAN :
       NewAlloc(b, c, arg, ok)
  \/ \E a \in StackBlocks, c \in Classes, arg \in ConstructorArgs :
       NewInplace(a, c, arg)
  \/ \E a \in Blocks, view \in Classes : Destroy(a, view)
  \/ \E b \in HeapBlocks, view \in Classes : DestroyFree(b, view)
  \/ \E a \in Blocks : DirectDestructor(a)
  \/ \E a \in Blocks, view \in Classes, member \in WritableData, value \in DataValues :
       WriteData(a, view, member, value)
  \/ \E a \in Blocks, view \in Classes, method \in {"estimate_price", "move", "park"},
        distance \in Distances :
       CallMethod(a, view, method, distance)

Spec == Init /\ [][Next]_vars

\* the program also registers and raises events and works through interfaces;
\* it destroys an object in place once
NextEvents ==
  \/ \E b \in HeapBlocks, c \in Classes, arg \in ConstructorArgs, ok \in BOOLEAN :
       NewAlloc(b, c, arg, ok)
  \/ \E a \in StackBlocks, c \in Classes, arg \in ConstructorArgs :
       NewInplace(a, c, arg)
  \/ \E a \in Blocks, view \in Classes : DestroyOnce(a, view)
  \/ \E b \in HeapBlocks, view \in Classes : DestroyFree(b, view)
  \/ \E a \in Blocks, view \in Classes, e \in EventNames, id \in HandlerIDs :
       RegisterEvent(a, view, e, id)
  \/ \E a \in Blocks, view \in Classes, e \in EventNames, arg \in Distances :
       RaiseEvent(a, view, e, arg)
  \/ \E a \in Blocks, view \in Classes, i \in Interfaces : Project(a, view, i)
  \/ \E a \in Blocks, e \in EventNames, arg \in Distances :
       RaiseInterfaceEvent(a, e, arg)
  \/ \E a \in Blocks, view \in Classes, member \in WritableData, value \in DataValues :
       WriteData(a, view, member, value)
  \/ \E a \in Blocks, member \in WritableData, value \in DataValues :
       WriteThroughProjection(a, member, value)
  \/ \E a \in Blocks, view \in Classes, method \in {"estimate_price", "move", "park"},
        distance \in Distances :
       CallMethod(a, view, method, distance)

SpecEvents == Init /\ [][NextEvents]_vars

\* the sample, or the sample with a Car constructor that leaves out INIT_BASE
InitAnyConstructor ==
  /\ \E a \in Blocks : inuse = {a}
  /\ Start
  /\ init_base \in {SampleInitBase, {}}
  /\ threads_supported = TRUE

SpecInitBase == InitAnyConstructor /\ [][Next]_vars

\* ------------------------------------------------------- scope-exit hooks
\* the scope of the variable declared with AUTODESTROY_PTR / AUTODESTROY is
\* still open
InScope == lastOp.op # "scope_exit"

\* AUTODESTROY_PTR(c) *handle = NEW_ALLOC(c, arg)
ScopedNewAlloc(b, c, arg, ok) == InScope /\ NewAlloc(b, c, arg, ok)

\* AUTODESTROY(c) object; NEW_INPLACE(c, &object, arg)
ScopedNewInplace(a, c, arg) == InScope /\ NewInplace(a, c, arg)

\* DESTROY(object) before the scope of the variable ends
ScopedDestroy(a) == InScope /\ Destroy(a, obs[a].cls)

\* DESTROY_FREE(handle) before the scope of the variable ends
ScopedDestroyFree(b) == InScope /\ DestroyFree(b, obs[b].cls)

\* the cleanup function the compiler calls with the address of the variable
\* when the scope ends: <c>_ptr_destructor for AUTODESTROY_PTR(c),
\* <c>_destructor for AUTODESTROY(c)
CLEANUP_ATTRIBUTE(c, a, st) ==
  IF a \in HeapBlocks THEN ClassyC_ptr_destructor(c, a, st)
  ELSE ClassyC_destructor(c, a, st)

\* the scope of the variable of block a, declared with class c, ends
ScopeExit(a, c) ==
  /\ InScope
  /\ a \in inuse
  /\ c # "OBJECT"
  /\ IF obs[a].cls = "" THEN a \in HeapBlocks /\ handle[a] = NULL
     ELSE c = obs[a].cls
  /\ \E st \in {CLEANUP_ATTRIBUTE(c, a, Machine)} :
         /\ Commit(st)
         /\ lastOp' = [NoOp EXCEPT !.op = "scope_exit", !.obj = a, !.view = c]
         /\ obs' = Destroyed(a, st.log)
         /\ proj' = [proj EXCEPT ![a] = NoProjection]

\* a function declares one object with a scope-exit hook, constructs it, may
\* destroy it by hand, and returns
NextScope ==
  \/ \E b \in HeapBlocks, c \in Classes, arg \in ConstructorArgs, ok \in BOOLEAN :
       ScopedNewAlloc(b, c, arg, ok)
  \/ \E a \in StackBlocks, c \in Classes, arg \in ConstructorArgs :
       ScopedNewInplace(a, c, arg)
  \/ \E a \in Blocks : ScopedDestroy(a)
  \/ \E b \in HeapBlocks : ScopedDestroyFree(b)
  \/ \E a \in Blocks, c \in Classes : ScopeExit(a, c)

SpecScope == Init /\ [][NextScope]_vars

\* ------------------------------------------- methods of interface structs
\* projection.method(projection.self, 50, distance): the call through the
\* method pointer of the interface struct obtained from block a
CallProjectedMethod(a, method, distance) ==
  /\ Live(a)
  /\ proj[a] # NoProjection
  /\ method \in DOMAIN proj[a].methods
  /\ method = "move" =>
       \A counter \in {"position", "km_since_last_fuel"} :
          GetMember(Machine, PointerTo(a), obs[a].cls, counter) + distance
            <= MaxPosition
  /\ \E st \in {CallFunction(proj[a].methods[method], proj[a].self, 50, distance,
                              Machine)} :
         /\ Commit(st)
         /\ lastOp' = [NoOp EXCEPT !.op = "call_projected", !.obj = a,
                                   !.view = proj[a].iface, !.name = method,
                                   !.arg = distance, !.result = st.result]
         /\ UNCHANGED <<obs, proj>>

\* the program constructs an object, obtains interface structs through
\* pointers of its class and of the ancestors, and uses the object directly
\* and through the structs
NextProject ==
  \/ \E b \in HeapBlocks, c \in Classes, arg \in ConstructorArgs, ok \in BOOLEAN :
       NewAlloc(b, c, arg, ok)
  \/ \E a \in StackBlocks, c \in Classes, arg \in ConstructorArgs :
       NewInplace(a, c, arg)
  \/ \E a \in Blocks, view \in Classes, i \in Interfaces : Project(a, view, i)
  \/ \E a \in Blocks, view \in Classes, member \in WritableData, value \in DataValues :
       WriteData(a, view, member, value)
  \/ \E a \in Blocks, view \in Classes, e \in EventNames, id \in HandlerIDs :
       RegisterEvent(a, view, e, id)
  \/ \E a \in Blocks, view \in Classes, method \in {"estimate_price", "move", "park"},
        distance \in Distances :
       CallMethod(a, view, method, distance)
  \/ \E a \in Blocks, method \in {"estimate_price", "move"}, distance \in Distances :
       CallProjectedMethod(a, method, distance)

SpecProject == Init /\ [][NextProject]_vars

\* --------------------------------------- scope exit of an ancestor pointer
\* the scope of the variable of block a ends, the variable being declared
\* AUTODESTROY_PTR(c) *p = (c *)NEW_ALLOC(C, arg) with c a class of the chain
\* of C, or AUTODESTROY(C) object
ScopeExitAs(a, c) ==
  /\ InScope
  /\ Live(a)
  /\ c \in ViewsOf(obs[a].cls)
  /\ a \in StackBlocks => c = obs[a].cls
  /\ \E st \in {CLEANUP_ATTRIBUTE(c, a, Machine)} :
         /\ Commit(st)
         /\ lastOp' = [NoOp EXCEPT !.op = "scope_exit", !.obj = a, !.view = c]
         /\ obs' = Destroyed(a, st.log)
         /\ proj' = [proj EXCEPT ![a] = NoProjection]

\* DESTROY(*p) before the scope ends, p of type view*
DestroyAs(a, view) == InScope /\ Destroy(a, view)

\* DESTROY_FREE(p) before the scope ends, p of type view*
DestroyFreeAs(b, view) == InScope /\ DestroyFree(b, view)

\* a function constructs an object, keeps it in a variable of its class or
\* of an ancestor class, and destroys it by hand or by leaving the scope
NextVirtual ==
  \/ \E b \in HeapBlocks, c \in Classes, arg \in ConstructorArgs, ok \in BOOLEAN :
       ScopedNewAlloc(b, c, arg, ok)
  \/ \E a \in StackBlocks, c \in Classes, arg \in ConstructorArgs :
       ScopedNewInplace(a, c, arg)
  \/ \E a \in Blocks, view \in Classes : DestroyAs(a, view)
  \/ \E b \in HeapBlocks, view \in Classes : DestroyFreeAs(b, view)
  \/ \E a \in Blocks, c \in Classes : ScopeExitAs(a, c)

SpecVirtual == Init /\ [][NextVirtual]_vars

\* ------------------------------------------------------------ two objects
\* a program that works with two objects, one on the heap and one on the stack
InitTwo ==
  /\ inuse = Blocks
  /\ Start
  /\ init_base = SampleInitBase
  /\ threads_supported = TRUE

\* the program constructs its objects and registers handlers on them
NextRegister ==
  \/ \E b \in HeapBlocks, c \in Classes, arg \in ConstructorArgs, ok \in BOOLEAN :
       NewAlloc(b, c, arg, ok)
  \/ \E a \in StackBlocks, c \in Classes, arg \in ConstructorArgs :
       NewInplace(a, c, arg)
  \/ \E a \in Blocks, view \in Classes, e \in EventNames, id \in HandlerIDs :
       RegisterEvent(a, view, e, id)

SpecRegister == InitTwo /\ [][NextRegister]_vars

\* ------------------------------------------------------------ Car scenario
\* the distances of the move calls, and the cap on km_since_last_fuel
CarDistances == {50, 300, 350}

MaxKm == 450

\* car->move(car, 50, distance), car of type view*
CarMove(a, view, distance) ==
  /\ Live(a)
  /\ obs[a].cls = "Car"
  /\ view \in ViewsOf("Car")
  /\ GetMember(Machine, PointerTo(a), "Car", "km_since_last_fuel") + distance <= MaxKm
  /\ \E st \in {CallMethodPointer(view, "move", PointerTo(a), 50, distance, Machine)} :
         /\ Commit(st)
         /\ lastOp' = [NoOp EXCEPT !.op = "call", !.obj = a, !.view = view,
                                   !.name = "move", !.arg = distance,
                                   !.result = st.result]
         /\ UNCHANGED <<obs, proj>>

\* a program that moves and parks a Car, with or without a handler for
\* on_need_fuel
NextCar ==
  \/ \E b \in HeapBlocks, arg \in ConstructorArgs, ok \in BOOLEAN :
       NewAlloc(b, "Car", arg, ok)
  \/ \E a \in StackBlocks, arg \in ConstructorArgs : NewInplace(a, "Car", arg)
  \/ \E a \in Blocks, id \in HandlerIDs : RegisterEvent(a, "Car", "on_need_fuel", id)
  \/ \E a \in Blocks, view \in Classes, distance \in CarDistances :
       CarMove(a, view, distance)
  \/ \E a \in Blocks, distance \in Distances : CallMethod(a, "Car", "park", distance)

SpecCar == Init /\ [][NextCar]_vars

\* ----------------------------------------------------------- swap scenario
\* the positions the program gives its objects
SwapPositions == {0 - 7, 0, 24}

\* swap_movables_position(p1, p2), p1 and p2 being the Moveable structs
\* obtained from the objects in blocks a1 and a2
SwapMovablesPosition(a1, a2) ==
  /\ a1 # a2
  /\ Live(a1) /\ Live(a2)
  /\ proj[a1].iface = "Moveable" /\ proj[a2].iface = "Moveable"
  /\ \E st \in {swap_movables_position(proj[a1], proj[a2], Machine)} :
         /\ Commit(st)
         /\ lastOp' = [NoOp EXCEPT !.op = "swap", !.obj = a1, !.arg = a2]
         /\ UNCHANGED <<obs, proj>>

\* the program constructs two objects, gives them positions, registers
\* handlers for on_move, obtains their Moveable structs and swaps
NextSwap ==
  \/ \E b \in HeapBlocks, c \in Classes, arg \in ConstructorArgs, ok \in BOOLEAN :
       NewAlloc(b, c, arg, ok)
  \/ \E a \in StackBlocks, c \in Classes, arg \in ConstructorArgs :
       NewInplace(a, c, arg)
  \/ \E a \in Blocks, value \in SwapPositions :
       WriteData(a, obs[a].cls, "position", value)
  \/ \E a \in Blocks : RegisterEvent(a, obs[a].cls, "on_move", "h1")
  \/ \E a \in Blocks, view \in Classes : Project(a, view, "Moveable")
  \/ \E a1, a2 \in Blocks : SwapMovablesPosition(a1, a2)

SpecSwap == InitTwo /\ [][NextSwap]_vars

\* ------------------------------------------------- deep inheritance chains
\* a program that constructs and destroys instances of the classes of the
\* chain L1 ... L10; a class that does not compile is in no program
DeepNewAlloc(b, c, arg, ok) == Compiles(c) /\ NewAlloc(b, c, arg, ok)

DeepNewInplace(a, c, arg) == Compiles(c) /\ NewInplace(a, c, arg)

NextDeep ==
  \/ \E b \in HeapBlocks, c \in DeepClasses, arg \in ConstructorArgs, ok \in BOOLEAN :
       DeepNewAlloc(b, c, arg, ok)
  \/ \E a \in StackBlocks, c \in DeepClasses, arg \in ConstructorArgs :
       DeepNewInplace(a, c, arg)
  \/ \E a \in Blocks : ScopedDestroy(a)
  \/ \E b \in HeapBlocks : ScopedDestroyFree(b)

SpecDeep == Init /\ [][NextDeep]_vars

\* ----------------------------------------------- locks, asynchronous methods
\* the state of the objects of the lifecycle part, which this part leaves alone
lifecycleVars == <<mem, mtx, heap, handle, num_objects_created,
                   num_objects_destroyed, proj, inuse, log, lastOp, obs, init_base>>

\* stop_clock calls the caller makes
MaxStops == 1

\* faulty variant: the lock is given to every thread that asks
mtx_lock_returns_NoExclusion(t, h) == TRUE

\* mtx_lock(&mutex) returns in thread t: the mutex was initialised with
\* mtx_recursive, so it does unless another thread holds it
mtx_lock_returns(t, h) == \A u \in Threads \ {t} : h[u] = 0

\* can LOCK_OBJECT(object) return in thread t; without threads it is an
\* assignment
LockReturns(t, h) == threads_supported => mtx_lock_returns(t, h)

\* LOCK_OBJECT(object_address) in thread t
LOCK_OBJECT(t, h) ==
  IF threads_supported THEN [h EXCEPT ![t] = @ + 1] ELSE [h EXCEPT ![t] = 1]

\* UNLOCK_OBJECT(object_address) in thread t
UNLOCK_OBJECT(t, h) ==
  IF threads_supported THEN [h EXCEPT ![t] = @ - 1] ELSE [h EXCEPT ![t] = 0]

\* args_struct = calloc(...); args_struct->self_void = self_void;
\* args_struct->arg = arg, the instance being at address 1
StoreArgs(a, n, bundles) ==
  [bundles EXCEPT ![a] = [state |-> "alloc", self_void |-> 1, arg |-> n,
                          thread_id |-> 0]]

\* faulty variant: the struct stays allocated
FreeArgs_Keeps(a, bundles) == bundles

\* free(args_struct)
FreeArgs(a, bundles) == [bundles EXCEPT ![a].state = "freed"]

\* faulty variant: the struct is left on the heap when no thread was created
ThreadCreateFailed_Leaks(a, bundles) == bundles

\* the branch of the wrapper taken when CLASSYC_THREAD_CREATE does not return
\* thrd_success
ThreadCreateFailed(a, bundles) == FreeArgs(a, bundles)

\* self->total_seconds_elapsed++
Tick(c) == [c EXCEPT !.total_seconds_elapsed = @ + 1]

\* the first statements of start_clock
ClockStarts(c) == [c EXCEPT !.clock_is_running = TRUE, !.continue_running = TRUE]

\* the last statements of start_clock
ClockStops(c) == [c EXCEPT !.continue_running = TRUE, !.clock_is_running = FALSE]

\* the loop of start_clock when nothing else runs: it ticks until the clock
\* has reached *arg
RECURSIVE ClockLoop(_, _)
ClockLoop(n, c) ==
  IF ~c.continue_running THEN c
  ELSE IF Tick(c).total_seconds_elapsed >= n THEN Tick(c)
  ELSE ClockLoop(n, Tick(c))

\* faulty variant: the body is not run by the call
start_clock_Deferred(n, c) == c

\* the body of start_clock between ASYNC_METHOD and END_ASYNC_METHOD, run as
\* a whole
start_clock(n, c) == ClockStops(ClockLoop(n, ClockStarts(c)))

\* the caller makes its invocations in order
NextInvocation(i) ==
  /\ main.pc = "idle"
  /\ main.outcome[i] = "none"
  /\ \A j \in Invocations : j < i => main.outcome[j] # "none"

\* thread_id = object->start_clock(object, &n) with threads: the wrapper up
\* to the call of thrd_create, which starts the thread or fails
StartClockAsync(i, n, calloc_ok, create_ok) ==
  /\ threads_supported
  /\ NextInvocation(i)
  /\ IF ~calloc_ok
     THEN /\ main' = [main EXCEPT !.outcome[i] = "failed",
                                  !.thread_id[i] = thrd_error]
          /\ UNCHANGED <<args, worker>>
     ELSE \E a \in ArgsAddresses :
            /\ args[a].state # "alloc"
            /\ IF ~create_ok
               THEN /\ args' = ThreadCreateFailed(a, StoreArgs(a, n, args))
                    /\ main' = [main EXCEPT !.outcome[i] = "failed",
                                            !.thread_id[i] = thrd_error]
                    /\ UNCHANGED worker
               ELSE /\ args' = [StoreArgs(a, n, args) EXCEPT
                                  ![a].thread_id = ThreadId(i)]
                    /\ worker' = [worker EXCEPT
                                    ![i] = [NoWorker EXCEPT !.pc = "spawned",
                                                            !.on = i,
                                                            !.args_struct = a]]
                    /\ main' = [main EXCEPT !.outcome[i] = "started",
                                            !.pc = "returning", !.on = i]
  /\ UNCHANGED <<threads_supported, clock, holds, lifecycleVars>>

\* return args_struct->thread_id: the wrapper reads the struct, which the
\* thread function may have freed by now
WrapperReturns(i) ==
  /\ main.pc = "returning"
  /\ main.on = i
  /\ \E v \in IF args[worker[i].args_struct].state = "alloc"
               THEN {args[worker[i].args_struct].thread_id}
               ELSE FreedMemoryValues :
       main' = [main EXCEPT !.thread_id[i] = v, !.pc = "idle", !.on = 0]
  /\ UNCHANGED <<threads_supported, clock, holds, args, worker, lifecycleVars>>

\* thread_id = object->start_clock(object, &n) without threads: a method
\* that runs the body and returns (thrd_t)0
StartClockSync(i, n) ==
  /\ ~threads_supported
  /\ NextInvocation(i)
  /\ clock' = start_clock(n, clock)
  /\ worker' = [worker EXCEPT ![i] = [NoWorker EXCEPT !.pc = "finished",
                                                       !.on = 0, !.arg = n]]
  /\ main' = [main EXCEPT !.outcome[i] = "started", !.thread_id[i] = 0]
  /\ UNCHANGED <<threads_supported, holds, args, lifecycleVars>>

\* the thread function starts: it copies the struct members to its local
\* variables and runs the first statements of the body
ThreadStarts(i) ==
  /\ worker[i].pc = "spawned"
  /\ worker' = [worker EXCEPT
                  ![i].pc = "running",
                  ![i].thread_id = args[worker[i].args_struct].thread_id,
                  ![i].arg = args[worker[i].args_struct].arg]
  /\ clock' = ClockStarts(clock)
  /\ UNCHANGED <<threads_supported, holds, args, main, lifecycleVars>>

\* the loop goes on: LOCK_OBJECT(self) before the increment
WorkerLocks(i) ==
  /\ worker[i].pc = "running"
  /\ clock.continue_running
  /\ LockReturns(i, holds)
  /\ holds' = LOCK_OBJECT(i, holds)
  /\ worker' = [worker EXCEPT ![i].pc = "locked"]
  /\ UNCHANGED <<threads_supported, clock, args, main, lifecycleVars>>

\* self->total_seconds_elapsed++; UNLOCK_OBJECT(self); break if the clock
\* has reached *arg
WorkerTicks(i) ==
  /\ worker[i].pc = "locked"
  /\ clock' = Tick(clock)
  /\ holds' = UNLOCK_OBJECT(i, holds)
  /\ worker' = [worker EXCEPT
                  ![i].pc = IF Tick(clock).total_seconds_elapsed >= worker[i].arg
                            THEN "stopping" ELSE "running"]
  /\ UNCHANGED <<threads_supported, args, main, lifecycleVars>>

\* if (!self->continue_running) break
WorkerSeesStop(i) ==
  /\ worker[i].pc = "running"
  /\ ~clock.continue_running
  /\ worker' = [worker EXCEPT ![i].pc = "stopping"]
  /\ UNCHANGED <<threads_supported, clock, holds, args, main, lifecycleVars>>

\* the last statements of the body
WorkerStops(i) ==
  /\ worker[i].pc = "stopping"
  /\ clock' = ClockStops(clock)
  /\ worker' = [worker EXCEPT ![i].pc = "exiting"]
  /\ UNCHANGED <<threads_supported, holds, args, main, lifecycleVars>>

\* return EXIT_ASYNC: free(args_struct), then thrd_detach of the thread
\* named by the local thread_id
ExitAsync(i) ==
  /\ worker[i].pc = "exiting"
  /\ args' = FreeArgs(worker[i].args_struct, args)
  /\ worker' = [worker EXCEPT
                  ![i].pc = "finished",
                  ![i].frees = @ + 1,
                  ![i].detached = (worker[i].thread_id = ThreadId(i))]
  /\ UNCHANGED <<threads_supported, clock, holds, main, lifecycleVars>>

\* the caller may use AWAIT on the thrd_t of invocation i
CanAwait(i) ==
  /\ main.pc = "idle"
  /\ main.thread_id[i] # NoThread
  /\ main.await[i] = "no"

\* the threads a thrd_t value names that run and were not detached
Joinable(thread_id) ==
  {j \in Invocations :
     ThreadId(j) = thread_id /\ worker[j].pc \notin {"none", "finished"}}

\* AWAIT(thread_id) with threads: thrd_join. The behaviour of thrd_join is
\* undefined for a value that names no thread or a detached thread: it
\* returns an error at once, or the caller never gets out of it
Await(i) ==
  /\ threads_supported
  /\ CanAwait(i)
  /\ IF Joinable(main.thread_id[i]) # {}
     THEN \E j \in Joinable(main.thread_id[i]) :
            main' = [main EXCEPT !.pc = "joining", !.on = j,
                                 !.await[i] = "waiting"]
     ELSE \/ main' = [main EXCEPT !.await[i] = "thrd_error"]
          \/ main' = [main EXCEPT !.pc = "stuck", !.await[i] = "waiting"]
  /\ UNCHANGED <<threads_supported, clock, holds, args, worker, lifecycleVars>>

\* faulty variant: thrd_join does not wait
thrd_join_returns_AtOnce(j, w) == TRUE

\* thrd_join returns when thread j has ended
thrd_join_returns(j, w) == w[j].pc = "finished"

\* the thread the caller waits for in thrd_join has ended, after it detached
\* itself: detaching a thread that is being joined is undefined too, the join
\* returns or the caller never gets out of it
AwaitReturns(i) ==
  /\ main.pc = "joining"
  /\ main.await[i] = "waiting"
  /\ thrd_join_returns(main.on, worker)
  /\ \/ main' = [main EXCEPT !.pc = "idle", !.on = 0, !.await[i] = "thrd_success"]
     \/ main' = [main EXCEPT !.pc = "stuck"]
  /\ UNCHANGED <<threads_supported, clock, holds, args, worker, lifecycleVars>>

\* AWAIT(thread_id) without threads: an assignment to a dummy variable
AwaitSync(i) ==
  /\ ~threads_supported
  /\ CanAwait(i)
  /\ main' = [main EXCEPT !.await[i] = "done"]
  /\ UNCHANGED <<threads_supported, clock, holds, args, worker, lifecycleVars>>

\* LOCK_OBJECT(object) by the caller, before it calls stop_clock
MainLocks ==
  /\ main.pc = "idle"
  /\ main.stops < MaxStops
  /\ LockReturns(0, holds)
  /\ holds' = LOCK_OBJECT(0, holds)
  /\ main' = [main EXCEPT !.pc = "locked"]
  /\ UNCHANGED <<threads_supported, clock, args, worker, lifecycleVars>>

\* object->stop_clock(object): the method locks the object itself
StopClockLocks ==
  /\ main.pc = "locked"
  /\ LockReturns(0, holds)
  /\ holds' = LOCK_OBJECT(0, holds)
  /\ main' = [main EXCEPT !.pc = "in_method"]
  /\ UNCHANGED <<threads_supported, clock, args, worker, lifecycleVars>>

\* if (self->clock_is_running) self->continue_running = false; the method
\* unlocks the object and returns
StopClockReturns ==
  /\ main.pc = "in_method"
  /\ clock' = IF clock.clock_is_running
              THEN [clock EXCEPT !.continue_running = FALSE] ELSE clock
  /\ holds' = UNLOCK_OBJECT(0, holds)
  /\ main' = [main EXCEPT !.pc = "after_method"]
  /\ UNCHANGED <<threads_supported, args, worker, lifecycleVars>>

\* UNLOCK_OBJECT(object) by the caller
MainUnlocks ==
  /\ main.pc = "after_method"
  /\ holds' = UNLOCK_OBJECT(0, holds)
  /\ main' = [main EXCEPT !.pc = "idle", !.stops = @ + 1]
  /\ UNCHANGED <<threads_supported, clock, args, worker, lifecycleVars>>

\* the build has threads or not; the instance is constructed
InitAsync ==
  /\ inuse = HeapBlocks
  /\ Start
  /\ init_base = SampleInitBase
  /\ threads_supported \in BOOLEAN

\* the caller starts clocks, stops them and waits for them, while the thread
\* functions run
NextAsync ==
  \/ \E i \in Invocations, n \in ClockArgs, calloc_ok \in BOOLEAN, create_ok \in BOOLEAN :
       StartClockAsync(i, n, calloc_ok, create_ok)
  \/ \E i \in Invocations : WrapperReturns(i)
  \/ \E i \in Invocations, n \in ClockArgs : StartClockSync(i, n)
  \/ \E i \in Invocations : ThreadStarts(i)
  \/ \E i \in Invocations : WorkerLocks(i)
  \/ \E i \in Invocations : WorkerTicks(i)
  \/ \E i \in Invocations : WorkerSeesStop(i)
  \/ \E i \in Invocations : WorkerStops(i)
  \/ \E i \in Invocations : ExitAsync(i)
  \/ \E i \in Invocations : Await(i)
  \/ \E i \in Invocations : AwaitReturns(i)
  \/ \E i \in Invocations : AwaitSync(i)
  \/ MainLocks
  \/ StopClockLocks
  \/ StopClockReturns
  \/ MainUnlocks

SpecAsync == InitAsync /\ [][NextAsync]_vars

\* ------------------------------------- destruction of the async instance
\* AUTODESTROY_PTR(AsyncClass) *my_async_class1 = NEW_ALLOC(AsyncClass): the
\* instance is in heap block 1, its members are the variable clock
InitAsyncObject ==
  /\ inuse = HeapBlocks
  /\ AsyncStart
  /\ mem = [a \in Blocks |-> <<>>]
  /\ mtx = [a \in Blocks |-> IF a \in HeapBlocks THEN "ready" ELSE "uninit"]
  /\ heap = [a \in Blocks |-> IF a \in HeapBlocks THEN "alloc" ELSE "stack"]
  /\ handle = [a \in HeapBlocks |-> a]
  /\ num_objects_created = 1
  /\ num_objects_destroyed = 0
  /\ proj = [a \in Blocks |-> NoProjection]
  /\ log = <<>>
  /\ lastOp = NoOp
  /\ obs = [a \in Blocks |-> NoObs]
  /\ init_base = SampleInitBase
  /\ threads_supported \in BOOLEAN

\* AsyncClass_destructor(self): the DESTRUCTOR of AsyncClass counts the
\* instance, then the mutex is destroyed
AsyncClass_destructor(self, st) ==
  CLASSYC_MUTEX_DESTROY("AsyncClass", self,
    Logged([st EXCEPT !.destroyed = @ + 1],
           Step("user_cleanup", "AsyncClass", "", FALSE, 0)))

\* DESTROY_FREE(my_async_class), or AsyncClass_ptr_destructor called when
\* the scope of the pointer ends: the caller does it between two statements,
\* whatever the thread functions do
DestroyAsyncObject(b, op) ==
  /\ main.pc = "idle"
  /\ handle[b] # NULL
  /\ \E st \in {FreeAndNull(b, AsyncClass_destructor(handle[b], Machine))} :
         /\ Commit(st)
         /\ lastOp' = [NoOp EXCEPT !.op = op, !.obj = b, !.view = "AsyncClass"]
         /\ UNCHANGED <<obs, proj>>

NextAsyncObject ==
  \/ NextAsync
  \/ \E b \in HeapBlocks, op \in {"DESTROY_FREE", "scope_exit"} :
       DestroyAsyncObject(b, op)

SpecAsyncObject == InitAsyncObject /\ [][NextAsyncObject]_vars

\* ------------------------------------------------- the printable classes
\* the program of the polymorphism test: DerivedPrintable calls INIT_BASE
InitPrintable ==
  /\ inuse = Blocks
  /\ Start
  /\ init_base = {"DerivedPrintable"}
  /\ threads_supported = TRUE

\* the program constructs a BasePrintable and a DerivedPrintable, both
\* constructor arguments of the latter being the same value, obtains their
\* Printable structs, calls print through the pointers and the structs, and
\* destroys the objects
NextPrintable ==
  \/ \E b \in HeapBlocks, c \in PrintableClasses, arg \in ConstructorArgs,
        ok \in BOOLEAN :
       NewAlloc(b, c, arg, ok)
  \/ \E a \in StackBlocks, c \in PrintableClasses, arg \in ConstructorArgs :
       NewInplace(a, c, arg)
  \/ \E a \in Blocks, view \in PrintableClasses : Project(a, view, "Printable")
  \/ \E a \in Blocks, view \in PrintableClasses : CallMethod(a, view, "print", 0)
  \/ \E a \in Blocks : CallProjectedMethod(a, "print", 0)
  \/ \E b \in HeapBlocks, view \in PrintableClasses : DestroyFree(b, view)
  \/ \E a \in StackBlocks, view \in PrintableClasses : Destroy(a, view)

SpecPrintable == InitPrintable /\ [][NextPrintable]_vars

\* ------------------------------------------------- rounds on one address
\* a function with one object on the stack
InitRounds ==
  /\ inuse = StackBlocks
  /\ Start
  /\ init_base = SampleInitBase
  /\ threads_supported = TRUE

\* the program constructs an object in the stack block, uses it, destroys
\* it, by DESTROY or by the destructor the scope-exit hook calls, and
\* constructs the next one in the same block
NextRounds ==
  \/ \E a \in StackBlocks, c \in Classes, arg \in ConstructorArgs :
       NewInplace(a, c, arg)
  \/ \E a \in StackBlocks, view \in Classes, member \in WritableData,
        value \in DataValues :
       WriteData(a, view, member, value)
  \/ \E a \in StackBlocks, e \in EventNames :
       RegisterEvent(a, obs[a].cls, e, "h1")
  \/ \E a \in StackBlocks, view \in Classes : Destroy(a, view)
  \/ \E a \in StackBlocks : DirectDestructor(a)

SpecRounds == InitRounds /\ [][NextRounds]_vars

\* ------------------------------------------ destruction by two threads
\* the object is constructed before the threads start
RaceNewAlloc(b, c, arg, ok) ==
  worker = [i \in Invocations |-> NoWorker] /\ NewAlloc(b, c, arg, ok)

RaceNewInplace(a, c, arg) ==
  worker = [i \in Invocations |-> NoWorker] /\ NewInplace(a, c, arg)

\* thread t calls the destructor of the instance in block a, by DESTROY or
\* directly: if (!self || !self->_destructor) return; the thread reads the
\* pointer and goes on if it is not NULL
DestructorEnters(t, a) ==
  /\ Usable(a)
  /\ worker[t].pc = "none"
  /\ worker' = [worker EXCEPT ![t].pc =
                  IF GetMember(Machine, PointerTo(a), obs[a].cls, "_destructor") = NULL
                  THEN "finished" ELSE "in_destructor",
                ![t].on = IF GetMember(Machine, PointerTo(a), obs[a].cls,
                                       "_destructor") = NULL
                          THEN 0 ELSE a]
  /\ lastOp' = [NoOp EXCEPT !.op = "destructor_enters", !.obj = a, !.id = "thread",
                            !.arg = t]
  /\ log' = <<>>
  /\ UNCHANGED <<mem, mtx, heap, handle, num_objects_created, num_objects_destroyed,
                 proj, inuse, obs, init_base, threads_supported, clock, holds, args,
                 main>>

\* <class>_user_destructor(IS_BASE_FALSE, self) in thread t, which passed the
\* test of self->_destructor
DestructorCleansUp(t) ==
  /\ worker[t].pc = "in_destructor"
  /\ \E st \in {ClassyC_user_destructor(obs[worker[t].on].cls, FALSE,
                                         PointerTo(worker[t].on), Machine)} :
         /\ mem' = st.mem /\ mtx' = st.mtx /\ heap' = st.heap /\ handle' = st.handle
         /\ num_objects_created' = st.created
         /\ num_objects_destroyed' = st.destroyed
         /\ log' = st.log
         /\ obs' = Destroyed(worker[t].on, st.log)
  /\ worker' = [worker EXCEPT ![t].pc = "cleaned"]
  /\ lastOp' = [NoOp EXCEPT !.op = "destructor_cleans", !.obj = worker[t].on,
                            !.id = "thread", !.arg = t]
  /\ UNCHANGED <<proj, inuse, init_base, threads_supported, clock, holds, args, main>>

\* CLASSYC_MUTEX_DESTROY(self->mutex) in thread t, the last statement of the
\* destructor
DestructorDestroysMutex(t) ==
  /\ worker[t].pc = "cleaned"
  /\ \E st \in {CLASSYC_MUTEX_DESTROY(obs[worker[t].on].cls, PointerTo(worker[t].on),
                                       Machine)} :
         mtx' = st.mtx /\ log' = st.log
  /\ worker' = [worker EXCEPT ![t].pc = "finished", ![t].frees = @ + 1]
  /\ lastOp' = [NoOp EXCEPT !.op = "destructor_mutex", !.obj = worker[t].on,
                            !.id = "thread", !.arg = t]
  /\ UNCHANGED <<mem, heap, handle, num_objects_created, num_objects_destroyed,
                 proj, inuse, obs, init_base, threads_supported, clock, holds, args,
                 main>>

\* the program constructs an object; each of two threads calls its
\* destructor once
NextRace ==
  \/ \E b \in HeapBlocks, c \in Classes, arg \in ConstructorArgs, ok \in BOOLEAN :
       RaceNewAlloc(b, c, arg, ok)
  \/ \E a \in StackBlocks, c \in Classes, arg \in ConstructorArgs :
       RaceNewInplace(a, c, arg)
  \/ \E t \in Invocations, a \in Blocks : DestructorEnters(t, a)
  \/ \E t \in Invocations : DestructorCleansUp(t)
  \/ \E t \in Invocations : DestructorDestroysMutex(t)

SpecRace == Init /\ [][NextRace]_vars

\* ------------------------------------------- use of a destroyed instance
\* cap on the number of times the main thread holds the mutex
MaxLockDepth == 1

\* LOCK_OBJECT(pointer) in the main thread: mtx_lock(&pointer->mutex), or
\* pointer->mutex = 1 without threads; mtx_lock on a mutex that was destroyed
\* is undefined: it takes the mutex or returns an error
LockObject(a) ==
  /\ Usable(a)
  /\ holds[0] < MaxLockDepth
  /\ IF threads_supported
     THEN /\ mem' = mem
          /\ \/ holds' = LOCK_OBJECT(0, holds)
             \/ mtx[a] # "ready" /\ holds' = holds
     ELSE /\ mem' = SetMember(Machine, PointerTo(a), obs[a].cls, "mutex", 1).mem
          /\ holds' = LOCK_OBJECT(0, holds)
  /\ lastOp' = [NoOp EXCEPT !.op = "LOCK_OBJECT", !.obj = a, !.view = obs[a].cls]
  /\ UNCHANGED <<mtx, heap, handle, num_objects_created, num_objects_destroyed,
                 proj, log, inuse, obs, init_base, threads_supported, clock, args,
                 worker, main>>

\* UNLOCK_OBJECT(pointer) in the main thread: mtx_unlock(&pointer->mutex), or
\* pointer->mutex = 0 without threads
UnlockObject(a) ==
  /\ Usable(a)
  /\ holds[0] > 0
  /\ mem' = IF threads_supported THEN mem
            ELSE SetMember(Machine, PointerTo(a), obs[a].cls, "mutex", 0).mem
  /\ holds' = UNLOCK_OBJECT(0, holds)
  /\ lastOp' = [NoOp EXCEPT !.op = "UNLOCK_OBJECT", !.obj = a, !.view = obs[a].cls]
  /\ UNCHANGED <<mtx, heap, handle, num_objects_created, num_objects_destroyed,
                 proj, log, inuse, obs, init_base, threads_supported, clock, args,
                 worker, main>>

\* a program that works with one object, with or without threads
InitSlot ==
  /\ \E a \in Blocks : inuse = {a}
  /\ Start
  /\ init_base = SampleInitBase
  /\ threads_supported \in BOOLEAN

\* the program goes on using an object after it destroyed it
NextSlot ==
  \/ \E b \in HeapBlocks, c \in Classes, arg \in ConstructorArgs, ok \in BOOLEAN :
       NewAlloc(b, c, arg, ok)
  \/ \E a \in StackBlocks, c \in Classes, arg \in ConstructorArgs :
       NewInplace(a, c, arg)
  \/ \E a \in Blocks, view \in Classes : Destroy(a, view)
  \/ \E b \in HeapBlocks, view \in Classes : DestroyFree(b, view)
  \/ \E a \in Blocks, method \in {"estimate_price", "move", "park"},
        distance \in Distances :
       MethodCall(a, obs[a].cls, method, distance)
  \/ \E a \in Blocks, e \in EventNames : RegisterEvent(a, obs[a].cls, e, "h1")
  \/ \E a \in Blocks, e \in EventNames, arg \in Distances :
       RaiseEvent(a, obs[a].cls, e, arg)
  \/ \E a \in Blocks, i \in Interfaces : CastCall(a, obs[a].cls, i)
  \/ \E a \in Blocks : LockObject(a)
  \/ \E a \in Blocks : UnlockObject(a)

SpecSlot == InitSlot /\ [][NextSlot]_vars

\* =============================================================== properties
\* the destruction operations
DestroyOps == {"DESTROY", "DESTROY_FREE", "destructor"}

\* the last operation was a construction that returned an instance
Constructed == lastOp.op \in {"NEW_ALLOC", "NEW_INPLACE"} /\ lastOp.ret # NULL

\* the class nearest to c in the chain of c that implements method m
RECURSIVE MostDerivedImplementer(_, _)
MostDerivedImplementer(c, m) ==
  IF c = "" \/ c = "OBJECT" THEN ""
  ELSE IF m \in Range(GET_IMPLEMENTS(c).methods) \cup Range(GET_IMPLEMENTS(c).overrides)
       THEN c
       ELSE MostDerivedImplementer(X_GET_BASE_NAME(c), m)

\* C1: after a successful construction of class C every dispatch slot of the
\* instance holds the implementation of the most derived class of C's chain
\* that implements the method, every interface of the chain has its cast
\* function (that of C) installed in to_<Interface>, and the lock is
\* initialised.
C1_ConstructionInstallsDispatch ==
  Constructed =>
    LET c == lastOp.view
        p == lastOp.ret
    IN  /\ \A m \in VisibleMembers(c, "methods") :
             /\ MostDerivedImplementer(c, m) # ""
             /\ GetMember(Machine, p, c, m)
                  = MethodFunction(MostDerivedImplementer(c, m), m)
             /\ FunctionAt(GetMember(Machine, p, c, m))
                  = [kind |-> "method", cls |-> MostDerivedImplementer(c, m),
                     name |-> m, id |-> ""]
        /\ \A i \in VisibleMembers(c, "ifaces") :
             FunctionAt(GetMember(Machine, p, c, ToName(i)))
               = [kind |-> "cast", cls |-> c, name |-> i, id |-> ""]
        /\ mtx[lastOp.obj] = "ready"

\* C1 witness: a Car was constructed on the heap; its move slot, inherited
\* from Vehicle, holds Car_move and both cast functions are installed
C1_Witness ==
  /\ Constructed
  /\ lastOp.op = "NEW_ALLOC"
  /\ lastOp.view = "Car"
  /\ FunctionAt(GetMember(Machine, lastOp.ret, "Vehicle", "move")).cls = "Car"
  /\ GetMember(Machine, lastOp.ret, "Car", "to_Moveable") # NULL
  /\ GetMember(Machine, lastOp.ret, "Car", "to_Sellable") # NULL

\* C2: for a live instance of class C and every ancestor type A of C, every
\* member A declares or inherits is at the same slot in the struct of A and
\* in the struct of C, reading it through either type gives the same value,
\* and calling a method through either type runs the same implementation
\* with the same outcome; the implementation a call ran is the most derived.
C2_AncestorViewIsSameInstance ==
  \A a \in inuse :
    Live(a) =>
      LET c == obs[a].cls
          p == PointerTo(a)
      IN  /\ \A v \in ViewsOf(c) :
               /\ \A kind \in {"data", "events", "methods"} :
                    \A m \in VisibleMembers(v, kind) :
                      /\ OffsetOf(v, m) = OffsetOf(c, m)
                      /\ GetMember(Machine, p, v, m) = GetMember(Machine, p, c, m)
               /\ \A m \in VisibleMembers(v, "methods"), d \in Distances :
                    CallMethodPointer(v, m, p, 50, d, Machine)
                      = CallMethodPointer(c, m, p, 50, d, Machine)
          /\ (lastOp.op = "call" /\ lastOp.obj = a) =>
               /\ log # <<>>
               /\ log[1].op = "method"
               /\ log[1].cls = MostDerivedImplementer(c, lastOp.name)
               /\ log[1].name = lastOp.name
               /\ log[1].rcv = p

\* C2 witness: move was called on a Car through a Vehicle pointer and Car_move
\* ran, moving the Car
C2_Witness ==
  \E a \in inuse :
    /\ Live(a)
    /\ obs[a].cls = "Car"
    /\ lastOp = [NoOp EXCEPT !.op = "call", !.obj = a, !.view = "Vehicle",
                             !.name = "move", !.arg = 350]
    /\ log[1].cls = "Car"
    /\ GetMember(Machine, PointerTo(a), "Vehicle", "position") = 350
    /\ GetMember(Machine, PointerTo(a), "Car", "km_since_last_fuel") = 350

\* C3: for DESTROY, DESTROY_FREE and the direct call of the destructor of the
\* instance's class, made one after the other: the cleanup code of every class
\* of the instance's chain has run exactly once as soon as one destruction
\* call was made and never before, and every call after the first executes
\* nothing.
C3_DestructionIdempotent ==
  \A a \in inuse :
    obs[a].cls # "" =>
      /\ \A c \in Classes :
           obs[a].cleanups[c]
             = IF c \in ViewsOf(obs[a].cls) /\ obs[a].calls >= 1 THEN 1 ELSE 0
      /\ (lastOp.op \in DestroyOps /\ lastOp.obj = a /\ obs[a].calls >= 2) =>
           log = <<>>

\* C3 witness: a second destruction call, the direct destructor call, was made
\* on a Car whose cleanup code had run
C3_Witness ==
  \E a \in inuse :
    /\ obs[a].cls = "Car"
    /\ obs[a].calls = 2
    /\ lastOp.op = "destructor"
    /\ lastOp.obj = a
    /\ Usable(a)
    /\ obs[a].cleanups["Car"] = 1
    /\ obs[a].cleanups["Vehicle"] = 1

\* the steps that install the structure of an instance
StructureOps == {"set_destructor", "set_method", "set_cast", "mutex_init"}

\* distance of a class from the root of its chain (OBJECT: 1)
Depth(c) == Len(Chain(c))

\* the steps of the log with operation op, in order
StepsOf(op) == SelectSeq(log, LAMBDA s : s.op = op)

\* C4: the log of a successful construction of class C starts with the
\* allocation (calloc, or memset for NEW_INPLACE); every step that installs
\* structure (destructor pointer, method pointers, cast functions, mutex)
\* comes before every user initialisation step; the structure steps go from
\* the root of the chain to C and cover every class of the chain; the user
\* initialisation steps go strictly from root to leaf and the last step of
\* the construction is the user initialisation of C with is_base false; when
\* every class with a base other than OBJECT calls INIT_BASE, the user
\* initialisation of every class of the chain runs, ancestors with is_base
\* true.
C4_ConstructionOrder ==
  Constructed =>
    LET c == lastOp.view
        S == {i \in DOMAIN log : log[i].op \in StructureOps}
        U == {i \in DOMAIN log : log[i].op = "user_init"}
    IN  /\ {i \in DOMAIN log : log[i].op \in {"calloc", "memset"}} = {1}
        /\ log[1].op = IF lastOp.op = "NEW_ALLOC" THEN "calloc" ELSE "memset"
        /\ S \cup U = DOMAIN log \ {1}
        /\ \A i \in S, j \in U : i < j
        /\ \A i \in S, j \in S : i < j => Depth(log[i].cls) <= Depth(log[j].cls)
        /\ \A x \in Range(Chain(c)) :
             \E i \in S : log[i].op = "set_destructor" /\ log[i].cls = x
        /\ \A x \in ViewsOf(c) :
             /\ \A m \in Range(GET_IMPLEMENTS(x).methods)
                         \cup Range(GET_IMPLEMENTS(x).overrides) :
                  \E i \in S : log[i] = Step("set_method", x, m, FALSE, 0)
             /\ \A n \in Range(GET_IMPLEMENTS(x).ifaces) :
                  \E i \in S : log[i] = Step("set_cast", c, n, FALSE, 0)
        /\ \A i \in U, j \in U : i < j => Depth(log[i].cls) < Depth(log[j].cls)
        /\ log[Len(log)] = Step("user_init", c, "", FALSE, lastOp.arg)
        /\ (\A x \in ViewsOf(c) : X_GET_BASE_NAME(x) # "OBJECT" => CallsInitBase(x))
             => \A x \in ViewsOf(c) :
                  \E i \in U : log[i].cls = x /\ log[i].flag = (x # c)

\* C4 witness: a Car was constructed in place; the user initialisation of
\* Vehicle (is_base true) ran before that of Car, after the method pointers
\* of Car were set
C4_Witness ==
  /\ Constructed
  /\ lastOp.op = "NEW_INPLACE"
  /\ lastOp.view = "Car"
  /\ Len(StepsOf("user_init")) = 2
  /\ StepsOf("user_init")[1] = Step("user_init", "Vehicle", "", TRUE, 0)
  /\ StepsOf("user_init")[2].cls = "Car"
  /\ Len(StepsOf("set_method")) = 5

\* the classes of the chain of c without OBJECT, c first and the root last
RECURSIVE LeafToRoot(_)
LeafToRoot(c) ==
  IF c = "" \/ c = "OBJECT" THEN <<>> ELSE <<c>> \o LeafToRoot(X_GET_BASE_NAME(c))

\* C5: the first destruction call on an instance of class C runs the cleanup
\* code of C first, with is_base false, and then that of every ancestor from
\* leaf to root, with is_base true; nothing else runs cleanup code.
C5_CleanupMostDerivedFirst ==
  (lastOp.op \in DestroyOps /\ obs[lastOp.obj].calls = 1) =>
    LET c == obs[lastOp.obj].cls
        U == StepsOf("user_cleanup")
        R == LeafToRoot(c)
    IN  /\ Len(U) = Len(R)
        /\ \A i \in 1..Len(R) : U[i].cls = R[i] /\ U[i].flag = (i > 1)
        /\ log[1] = U[1]

\* C5 witness: DESTROY through a Vehicle pointer was the first destruction of
\* a Car; the cleanup of Car ran, then that of Vehicle
C5_Witness ==
  /\ lastOp.op = "DESTROY"
  /\ lastOp.view = "Vehicle"
  /\ obs[lastOp.obj].cls = "Car"
  /\ obs[lastOp.obj].calls = 1
  /\ Len(StepsOf("user_cleanup")) = 2
  /\ StepsOf("user_cleanup")[1] = Step("user_cleanup", "Car", "", FALSE, 0)
  /\ StepsOf("user_cleanup")[2] = Step("user_cleanup", "Vehicle", "", TRUE, 0)

\* C6: when calloc fails in NEW_ALLOC the handle receives NULL, the failed
\* calloc is the only step executed (no pointer is set, no mutex initialised,
\* no user initialisation code runs), and the block is neither allocated nor
\* holds any slot.
C6_AllocationFailure ==
  (lastOp.op = "NEW_ALLOC" /\ lastOp.ret = NULL) =>
    /\ handle[lastOp.obj] = NULL
    /\ log = <<Step("calloc", lastOp.view, "", FALSE, 0)>>
    /\ heap[lastOp.obj] # "alloc"
    /\ mem[lastOp.obj] = <<>>
    /\ mtx[lastOp.obj] # "ready"
    /\ ~Usable(lastOp.obj)

\* C6 witness: NEW_ALLOC of a Car failed before anything was ever constructed
C6_Witness ==
  /\ lastOp.op = "NEW_ALLOC"
  /\ lastOp.view = "Car"
  /\ lastOp.ret = NULL
  /\ num_objects_created = 0
  /\ heap[lastOp.obj] = "unalloc"

\* the step of the call of handler h = [cls, id] of event e with receiver self
HandlerStep(h, e, self, arg) ==
  [op |-> "handler", cls |-> h.cls, name |-> e, flag |-> FALSE, arg |-> arg,
   id |-> h.id, rcv |-> self]

\* C7: RAISE_EVENT and RAISE_INTERFACE_EVENT execute nothing when no handler
\* was registered for the event since the instance was constructed;
\* otherwise they execute exactly one step, the call of the handler
\* registered last, with the instance as receiver and the argument given.
C7_FiringCallsLastRegistered ==
  lastOp.op \in {"RAISE_EVENT", "RAISE_INTERFACE_EVENT"} =>
    LET a == lastOp.obj
        h == obs[a].reg[lastOp.name]
    IN  log = IF h = NoHandler THEN <<>>
              ELSE <<HandlerStep(h, lastOp.name, PointerTo(a), lastOp.arg)>>

\* C7 witness: on_move was raised through a Moveable struct of a Car and the
\* handler h2, registered through a Car pointer, was called with the Car as
\* receiver
C7_Witness ==
  /\ lastOp.op = "RAISE_INTERFACE_EVENT"
  /\ lastOp.name = "on_move"
  /\ obs[lastOp.obj].cls = "Car"
  /\ log = <<HandlerStep([cls |-> "Car", id |-> "h2"], "on_move",
                         PointerTo(lastOp.obj), 350)>>

\* C8: while an instance is live, every data pointer of an interface struct
\* obtained from it points to the slot of that member in the instance, so
\* that dereferencing it gives the current value of the member whatever was
\* written since, and after a write through the pointer the member of the
\* instance has the value written.
C8_ProjectionDataAliasesInstance ==
  \A a \in inuse :
    (Live(a) /\ proj[a] # NoProjection) =>
      /\ proj[a].self = PointerTo(a)
      /\ \A d \in DOMAIN proj[a].data :
           /\ proj[a].data[d] = AddressOfMember(PointerTo(a), obs[a].cls, d)
           /\ Deref(Machine, proj[a].data[d])
                = GetMember(Machine, PointerTo(a), obs[a].cls, d)
      /\ (lastOp.op = "write_projection" /\ lastOp.obj = a) =>
           GetMember(Machine, PointerTo(a), obs[a].cls, lastOp.name) = lastOp.arg

\* C8 witness: a Car moved after its Moveable struct was obtained and the
\* position pointer of the struct gives the new position
C8_Witness ==
  \E a \in inuse :
    /\ Live(a)
    /\ obs[a].cls = "Car"
    /\ proj[a].iface = "Moveable"
    /\ lastOp.op = "call"
    /\ lastOp.name = "move"
    /\ Deref(Machine, proj[a].data["position"]) = 350

\* C9: while the memory of an instance is there, every event pointer of an
\* interface struct obtained from it points to the event slot of the instance;
\* RAISE_INTERFACE_EVENT for an event registered after the struct was
\* obtained calls the handler registered last, once.
C9_LateRegistrationFires ==
  \A a \in inuse :
    (Usable(a) /\ proj[a] # NoProjection) =>
      /\ \A e \in DOMAIN proj[a].events :
           /\ proj[a].events[e] = AddressOfMember(PointerTo(a), obs[a].cls, e)
           /\ (obs[a].reg[e] = NoHandler) = (Deref(Machine, proj[a].events[e]) = NULL)
      /\ (/\ lastOp.op = "RAISE_INTERFACE_EVENT"
          /\ lastOp.obj = a
          /\ lastOp.name \in obs[a].late) =>
           /\ obs[a].reg[lastOp.name] # NoHandler
           /\ log = <<HandlerStep(obs[a].reg[lastOp.name], lastOp.name,
                                  proj[a].self, lastOp.arg)>>

\* C9 witness: on_move was raised through the Moveable struct of an Elephant
\* for which h1 was registered after the struct was obtained
C9_Witness ==
  \E a \in inuse :
    /\ obs[a].cls = "Elephant"
    /\ lastOp.op = "RAISE_INTERFACE_EVENT"
    /\ lastOp.obj = a
    /\ "on_move" \in obs[a].late
    /\ Len(log) = 1
    /\ log[1].op = "handler"
    /\ log[1].id = "h1"

\* C10: after every DESTROY_FREE the handle is NULL and the block is freed;
\* DESTROY executes no free and leaves the block unfreed.
C10_DestroyFreeAlwaysReleases ==
  /\ lastOp.op = "DESTROY_FREE" =>
       /\ handle[lastOp.obj] = NULL
       /\ heap[lastOp.obj] = "freed"
  /\ lastOp.op = "DESTROY" =>
       /\ StepsOf("free") = <<>>
       /\ heap[lastOp.obj] # "freed"

\* C10, the part the code keeps: DESTROY executes no free and leaves the
\* block unfreed, and a DESTROY_FREE that is the first destruction call on
\* the instance frees the block and sets the handle to NULL.
C10_FirstDestroyFreeReleases ==
  /\ (lastOp.op = "DESTROY_FREE" /\ obs[lastOp.obj].calls = 1) =>
       /\ handle[lastOp.obj] = NULL
       /\ heap[lastOp.obj] = "freed"
  /\ lastOp.op = "DESTROY" =>
       /\ StepsOf("free") = <<>>
       /\ heap[lastOp.obj] # "freed"

\* C10 witness: DESTROY_FREE after DESTROY on a heap instance: nothing is
\* freed and the handle still points to the block
C10_Witness ==
  /\ lastOp.op = "DESTROY_FREE"
  /\ obs[lastOp.obj].calls = 2
  /\ handle[lastOp.obj] = lastOp.obj
  /\ heap[lastOp.obj] = "alloc"
  /\ log = <<>>

\* the instance constructed last in block a was constructed successfully
\* under a scope-exit hook and the scope has ended
ScopeEnded(a) == lastOp.op = "scope_exit" /\ a \in inuse /\ obs[a].cls # ""

\* C11: when the scope of an instance declared with AUTODESTROY_PTR or
\* AUTODESTROY has ended, the cleanup code of every class of its chain has
\* run exactly once, the memory of a heap instance has been released exactly
\* once and its handle is null, the memory of an in-place instance was not
\* released, whether or not DESTROY or DESTROY_FREE was called before; and
\* in no state has the cleanup run or the memory been released twice.
C11_ScopeExitCleansUpOnce ==
  \A a \in Blocks :
    /\ \A c \in Classes : obs[a].cleanups[c] <= 1
    /\ obs[a].frees <= 1
    /\ ScopeEnded(a) =>
         /\ \A c \in Classes :
              obs[a].cleanups[c] = IF c \in ViewsOf(obs[a].cls) THEN 1 ELSE 0
         /\ a \in HeapBlocks =>
              obs[a].frees = 1 /\ heap[a] = "freed" /\ handle[a] = NULL
         /\ a \in StackBlocks => obs[a].frees = 0 /\ heap[a] = "stack"

\* a heap Car was destroyed in place by hand, and the end of the scope
\* released its memory without running the cleanup again
C11_Witness ==
  /\ ScopeEnded(1)
  /\ obs[1].cls = "Car"
  /\ obs[1].calls = 2
  /\ obs[1].frees = 1
  /\ obs[1].cleanups["Car"] = 1

\* the steps of the last operation in which the code of class c ran between
\* CONSTRUCTOR and END_CONSTRUCTOR with is_base = flag
UserInits(steps, c, flag) ==
  {i \in 1..Len(steps) :
     steps[i].op = "user_init" /\ steps[i].cls = c /\ steps[i].flag = flag}

\* C12: in a successful construction of class C the code of C runs once with
\* is_base false and never with is_base true; the code of the base class of C
\* runs once, with is_base true, if the constructor of C calls INIT_BASE, and
\* not at all if it does not, in which case the members the base class
\* declares that C's code does not write are zero; the counter guarded by
\* !is_base goes up by exactly one.
C12_InitBaseRunsAncestorAsBase ==
  [][(lastOp'.op \in {"NEW_ALLOC", "NEW_INPLACE"} /\ lastOp'.ret # NULL) =>
       LET c == lastOp'.view
           b == X_GET_BASE_NAME(c)
       IN  /\ Cardinality(UserInits(log', c, FALSE)) = 1
           /\ UserInits(log', c, TRUE) = {}
           /\ b # "OBJECT" =>
                /\ UserInits(log', b, FALSE) = {}
                /\ Cardinality(UserInits(log', b, TRUE))
                     = IF c \in init_base THEN 1 ELSE 0
                /\ c \notin init_base =>
                     mem'[lastOp'.ret][OffsetOf(c, "id")] = 0
           /\ num_objects_created' = num_objects_created + 1]_vars

\* a Car whose constructor leaves out INIT_BASE was constructed in stack
\* memory that held garbage: the code of Vehicle did not run
C12_Witness ==
  /\ Constructed
  /\ lastOp.op = "NEW_INPLACE"
  /\ lastOp.view = "Car"
  /\ init_base = {}
  /\ UserInits(log, "Vehicle", TRUE) = {}
  /\ UserInits(log, "Car", FALSE) # {}
  /\ num_objects_created = 1
  /\ mem[2][OffsetOf("Car", "id")] = 0

\* AWAIT on the thrd_t of invocation i has returned
Awaited(i) == main.await[i] \in {"thrd_success", "thrd_error", "done"}

\* invocation i is the only one that ran the body, and stop_clock was not
\* called before its AWAIT returned
OnlyInvocation(i) ==
  /\ main.outcome[i] = "started"
  /\ \A j \in Invocations \ {i} : main.outcome[j] # "started"
  /\ main.stops = 0

\* C13: with threads, when AWAIT on the value an asynchronous call returned
\* has returned, the thread function of that call has ended; and if the
\* call was the only one on the instance and the clock was not stopped, the
\* counter the body incremented under the lock equals the N it was given.
C13_AwaitWaitsForWorker ==
  threads_supported =>
    \A i \in Invocations :
      (main.outcome[i] = "started" /\ Awaited(i)) =>
        /\ worker[i].pc = "finished"
        /\ OnlyInvocation(i) => clock.total_seconds_elapsed = worker[i].arg

\* the caller waited in thrd_join for a clock of two seconds and sees two
C13_Witness ==
  /\ threads_supported
  /\ OnlyInvocation(1)
  /\ main.await[1] = "thrd_success"
  /\ worker[1].arg = 2
  /\ clock.total_seconds_elapsed = 2

AllocatedArgs == {a \in ArgsAddresses : args[a].state = "alloc"}

\* the argument structs of the thread functions that have not ended
ArgsInUse ==
  {worker[j].args_struct : j \in {k \in Invocations :
                                    worker[k].pc \notin {"none", "finished"}}}

\* C15: an asynchronous call that could not allocate its argument struct or
\* could not create its thread has returned thrd_error, its thread function
\* has not run and never runs, and no argument struct is allocated other than
\* those of the thread functions that are running.
C15_FailedSpawnReleasesArgs ==
  /\ \A i \in Invocations :
       main.outcome[i] = "failed" =>
         main.thread_id[i] = thrd_error /\ worker[i] = NoWorker
  /\ (\E i \in Invocations : main.outcome[i] = "failed") =>
       AllocatedArgs = ArgsInUse

\* thrd_create failed for the first call: the struct allocated for it is
\* freed and no thread function exists
C15_Witness ==
  /\ main.outcome[1] = "failed"
  /\ main.thread_id[1] = thrd_error
  /\ \E a \in ArgsAddresses : args[a].state = "freed" /\ args[a].arg # 0
  /\ \A j \in Invocations : worker[j].pc = "none"

\* the state of an invocation, by the place of its thread function
Phase(w) ==
  CASE w.pc = "none" -> "NotStarted"
    [] w.pc = "spawned" -> "Spawned"
    [] w.pc = "finished" -> "Finished"
    [] OTHER -> "Running"

\* the invocations whose thread function exists and has not ended
Active(w) == {i \in Invocations : Phase(w[i]) \in {"Spawned", "Running"}}

\* C16: with threads, an invocation whose thread was created only goes from
\* Spawned to Running to Finished; while its thread function has not ended its
\* argument struct is allocated, was never freed and belongs to no other
\* invocation that has not ended; when the thread function has ended it has
\* freed the struct exactly once and detached its own thread, and the struct
\* is not left allocated.
C16_WorkerFreesArgsOnce ==
  [][threads_supported =>
       \A i \in Invocations :
         /\ Phase(worker'[i]) # Phase(worker[i]) =>
              <<Phase(worker[i]), Phase(worker'[i])>> \in
                {<<"NotStarted", "Spawned">>, <<"Spawned", "Running">>,
                 <<"Running", "Finished">>}
         /\ i \in Active(worker') =>
              /\ args'[worker'[i].args_struct].state = "alloc"
              /\ worker'[i].frees = 0
              /\ ~worker'[i].detached
              /\ \A j \in Active(worker') \ {i} :
                   worker'[j].args_struct # worker'[i].args_struct
         /\ Phase(worker'[i]) = "Finished" =>
              /\ worker'[i].frees = 1
              /\ worker'[i].detached
              /\ \/ args'[worker'[i].args_struct].state = "freed"
                 \/ \E j \in Active(worker') :
                      worker'[j].args_struct = worker'[i].args_struct
         /\ worker'[i].frees > worker[i].frees =>
              /\ Phase(worker[i]) = "Running"
              /\ Phase(worker'[i]) = "Finished"
              /\ args[worker[i].args_struct].state = "alloc"]_vars

\* the thread function of the first call has ended, freed its struct and
\* detached itself while that of the second call, on the same instance, runs
\* with a struct of its own
C16_Witness ==
  /\ threads_supported
  /\ worker[1].pc = "finished"
  /\ worker[1].frees = 1
  /\ worker[1].detached
  /\ worker[2].pc = "locked"
  /\ args[worker[2].args_struct].state = "alloc"
  /\ worker[2].args_struct # worker[1].args_struct
  /\ args[worker[1].args_struct].state = "freed"

\* C17: the thrd_t an asynchronous call returns when it started the body is
\* never thrd_error, with threads and without; a call that failed returns
\* thrd_error.
C17_ErrorHandleDistinct ==
  \A i \in Invocations :
    /\ (main.outcome[i] = "started" /\ main.thread_id[i] # NoThread) =>
         main.thread_id[i] # thrd_error
    /\ main.outcome[i] = "failed" => main.thread_id[i] = thrd_error

\* C17, as far as it holds: a call that failed returns thrd_error; with
\* threads, a call that created its thread and reads the thrd_t from its
\* argument struct before the thread function freed it returns the
\* identifier of the thread, which is not thrd_error.
C17_ErrorHandleDistinctWithThreads ==
  [][\A i \in Invocations :
       main'.thread_id[i] # main.thread_id[i] =>
         IF main'.outcome[i] = "failed" THEN main'.thread_id[i] = thrd_error
         ELSE (threads_supported /\ args[worker[i].args_struct].state = "alloc") =>
                (main'.thread_id[i] = ThreadId(i) /\ ThreadId(i) # thrd_error)]_vars

\* without threads the first call ran the body and returned (thrd_t)0, the
\* value of thrd_error
C17_Witness ==
  /\ ~threads_supported
  /\ main.outcome[1] = "started"
  /\ worker[1].pc = "finished"
  /\ main.thread_id[1] = 0
  /\ thrd_error = 0

\* C18: without threads an asynchronous call that has returned has run the
\* whole body on the caller's thread and returned (thrd_t)0, and the caller
\* never waits in AWAIT; and in both builds, after a single call followed by
\* AWAIT the instance is in the same state: the clock stands at *arg, is not
\* running, and continue_running is set again.
C18_DegradedModeEquivalent ==
  /\ ~threads_supported =>
       /\ \A i \in Invocations :
            /\ main.outcome[i] = "started" =>
                 /\ worker[i].pc = "finished"
                 /\ worker[i].on = 0
                 /\ main.thread_id[i] = 0
            /\ main.await[i] \in {"no", "done"}
       /\ main.pc \notin {"returning", "joining", "stuck"}
  /\ \A i \in Invocations :
       (OnlyInvocation(i) /\ Awaited(i)) =>
         clock = [total_seconds_elapsed |-> worker[i].arg,
                  clock_is_running |-> FALSE, continue_running |-> TRUE]

\* without threads a clock of two seconds was started and awaited
C18_Witness ==
  /\ ~threads_supported
  /\ OnlyInvocation(1)
  /\ main.await[1] = "done"
  /\ worker[1].arg = 2
  /\ clock.total_seconds_elapsed = 2

\* ------------------------------------------------------------------- C19
\* the last operation was a construction
IsConstruction == lastOp.op \in {"NEW_ALLOC", "NEW_INPLACE"}

\* every member that the class and its ancestors declare is in the struct
CompleteLayout(c) ==
  \A k \in 1..Len(Chain(c)) :
    \A m \in Range(WRITE_CLASS_STRUCT_NESTED_MEMBERS(Chain(c)[k])) :
      m \in Range(STRUCT_HEADER[c])

\* C19: the construction of a class whose ancestor chain has more than 9
\* levels is aborted: it returns NULL
C19_DeepConstructionAborted ==
  (IsConstruction /\ Depth(lastOp.view) > 9) => lastOp.ret = NULL

\* C19, as the code behaves: the level the macros count never exceeds 9, so
\* no construction is aborted for its depth (only a failed calloc returns
\* NULL); a class with up to 9 ancestor levels has a complete layout, and a
\* deeper class loses the members of OBJECT and does not compile
C19_DepthCheckNeverFires ==
  /\ \A c \in DeepClasses :
       /\ GET_INHERITANCE_LEVEL(c) <= 9
       /\ ~CLASSYC_CHECK_INHERITANCE_DEPTH(c)
       /\ Compiles(c) <=> Depth(c) <= 10
       /\ Compiles(c) <=> CompleteLayout(c)
  /\ (IsConstruction /\ lastOp.op = "NEW_INPLACE") => lastOp.ret # NULL
  /\ (IsConstruction /\ lastOp.ret # NULL) => CompleteLayout(lastOp.view)

\* an instance of L9, whose chain has 10 levels, was constructed in place
C19_Witness ==
  /\ lastOp.op = "NEW_INPLACE"
  /\ lastOp.view = "L9"
  /\ Depth("L9") = 10
  /\ lastOp.ret # NULL
  /\ Live(lastOp.obj)

\* ------------------------------------------------------------------- C20
\* self->_destructor of the instance in block a
DestructorSlot(a) == GetMember(Machine, PointerTo(a), obs[a].cls, "_destructor")

UsedAfterDestruction ==
  {"call", "RAISE_EVENT", "REGISTER_EVENT", "project", "LOCK_OBJECT",
   "UNLOCK_OBJECT", "DESTROY", "DESTROY_FREE"}

\* C20: while the memory of an instance is there, its _destructor slot is
\* non-null exactly as long as no destruction call was made on it since its
\* construction: calls, raised and registered events, projections, locks and
\* further destructions leave it as it is, and the slot of a destroyed
\* instance becomes non-null again only by a construction.
C20_DestructorSlotLifecycle ==
  /\ [](\A a \in inuse :
          Usable(a) => ((DestructorSlot(a) # NULL) <=> (obs[a].calls = 0)))
  /\ [][\A a \in inuse :
          (Usable(a) /\ DestructorSlot(a) = NULL /\ DestructorSlot(a)' # NULL)
            => lastOp'.op \in {"NEW_ALLOC", "NEW_INPLACE"}]_vars

\* C20 witness: two destruction calls were made on an instance whose memory
\* is still there; a handler is registered on it, the main thread holds its
\* lock, it was just used again, and its slot is NULL
C20_Witness ==
  \E a \in inuse :
    /\ Usable(a)
    /\ obs[a].calls = 2
    /\ lastOp.op \in UsedAfterDestruction \ {"DESTROY", "DESTROY_FREE"}
    /\ lastOp.obj = a
    /\ holds[0] = 1
    /\ obs[a].reg # NoObs.reg
    /\ DestructorSlot(a) = NULL

\* ------------------------------------------------------------------- C21
\* the steps of a construction that install a dispatch slot
SlotOps == {"set_destructor", "set_method", "set_cast"}

MutexInits == {i \in DOMAIN log : log[i].op = "mutex_init"}

SlotInstalls == {i \in DOMAIN log : log[i].op \in SlotOps}

\* C21: a successful construction initialises the mutex of the instance
\* exactly once, after the dispatch slots of every class of the chain are set
C21_MutexInitOnceAfterSlots ==
  Constructed =>
    /\ Cardinality(MutexInits) = 1
    /\ \A i \in MutexInits, j \in SlotInstalls : j < i

\* C21, as the code behaves: the constructor of every class of the chain
\* except OBJECT initialises the mutex, after the slots of its own class and
\* of its ancestors and before the slots of the classes derived from it; the
\* last initialisation comes after every slot
C21_MutexInitPerClass ==
  Constructed =>
    /\ \A x \in ViewsOf(lastOp.view) :
         /\ Cardinality({i \in MutexInits : log[i].cls = x}) = 1
         /\ \A i \in MutexInits, j \in SlotInstalls :
              log[i].cls = x =>
                ((j < i) <=> (Depth(log[j].cls) <= Depth(x)))
    /\ Cardinality(MutexInits) = Depth(lastOp.view) - 1
    /\ \E i \in MutexInits : \A j \in SlotInstalls : j < i

\* C21 witness: a Car was constructed; the mutex was initialised by the
\* constructor of Vehicle, then a method pointer of Car was set, then the
\* mutex was initialised again by the constructor of Car
C21_Witness ==
  /\ Constructed
  /\ lastOp.view = "Car"
  /\ \E i, k \in MutexInits, j \in SlotInstalls :
       /\ i < j /\ j < k
       /\ log[i].cls = "Vehicle"
       /\ log[j] = Step("set_method", "Car", "park", FALSE, 0)
       /\ log[k].cls = "Car"

\* ------------------------------------------------------------------- C22
\* instance->event, read through a pointer of the class of the instance
EventSlot(a, e) == GetMember(Machine, PointerTo(a), obs[a].cls, e)

\* the event slots of the instances whose memory is there
EventSlots ==
  {<<a, e>> \in inuse \X EventNames :
     Usable(a) /\ e \in VisibleMembers(obs[a].cls, "events")}

\* C22: every event slot of every instance is empty or holds the one handler
\* registered last for that event on that instance; REGISTER_EVENT stores its
\* handler whether or not the slot held one, and changes no other event slot
\* of the instance and no event slot of another instance.
C22_RegisterOverwritesOneSlot ==
  /\ [](\A s \in EventSlots :
          EventSlot(s[1], s[2])
            = IF obs[s[1]].reg[s[2]] = NoHandler THEN NULL
              ELSE GET_EVENT_FUNC_NAME(obs[s[1]].reg[s[2]].cls, s[2],
                                       obs[s[1]].reg[s[2]].id))
  /\ [][lastOp'.op = "REGISTER_EVENT" =>
          \A s \in EventSlots :
            EventSlot(s[1], s[2])'
              = IF s[1] = lastOp'.obj /\ s[2] = lastOp'.name
                THEN GET_EVENT_FUNC_NAME(lastOp'.view, s[2], lastOp'.id)
                ELSE EventSlot(s[1], s[2])]_vars

\* C22 witness: the handler h1 of Vehicle for on_move is registered on a Car
\* and on an Elephant; the Car also has a handler for on_need_fuel, and the
\* last registration replaced h2 by h1 on the Car
C22_Witness ==
  /\ <<1, "on_need_fuel">> \in EventSlots
  /\ <<2, "on_move">> \in EventSlots
  /\ obs[2].cls = "Elephant"
  /\ lastOp.op = "REGISTER_EVENT" /\ lastOp.obj = 1 /\ lastOp.id = "h1"
  /\ EventSlot(1, "on_move") = GET_EVENT_FUNC_NAME("Vehicle", "on_move", "h1")
  /\ EventSlot(1, "on_need_fuel") = GET_EVENT_FUNC_NAME("Car", "on_need_fuel", "h2")
  /\ EventSlot(2, "on_move") = GET_EVENT_FUNC_NAME("Elephant", "on_move", "h1")

\* ------------------------------------------------------------------- C23
\* the step of the log for the entry into method m of class c
MethodStep(c, m, self, distance) ==
  [op |-> "method", cls |-> c, name |-> m, flag |-> FALSE, arg |-> distance,
   id |-> "", rcv |-> self]

CarField(a, member) == GetMember(Machine, PointerTo(a), "Car", member)

\* C23: a Car is constructed with position 0 and km_since_last_fuel 0; each
\* move by a distance, through a Car or a Vehicle pointer, runs Car's move,
\* adds the distance to position and to km_since_last_fuel and raises
\* on_need_fuel with 400 - km_since_last_fuel exactly when that difference,
\* taken after the move, is below 100: the handler registered for the event,
\* if there is one, is then called once with it.
C23_CarMoveRaisesNeedFuel ==
  /\ []((Constructed /\ lastOp.view = "Car") =>
          /\ CarField(lastOp.obj, "position") = 0
          /\ CarField(lastOp.obj, "km_since_last_fuel") = 0)
  /\ [][\A a \in inuse :
          (lastOp'.op = "call" /\ lastOp'.name = "move" /\ lastOp'.obj = a) =>
            /\ CarField(a, "position")' = CarField(a, "position") + lastOp'.arg
            /\ CarField(a, "km_since_last_fuel")'
                 = CarField(a, "km_since_last_fuel") + lastOp'.arg
            /\ log' = <<MethodStep("Car", "move", PointerTo(a), lastOp'.arg)>>
                      \o IF /\ 400 - CarField(a, "km_since_last_fuel")' < 100
                            /\ obs[a].reg["on_need_fuel"] # NoHandler
                         THEN <<HandlerStep(obs[a].reg["on_need_fuel"],
                                            "on_need_fuel", PointerTo(a),
                                            400 - CarField(a, "km_since_last_fuel")')>>
                         ELSE <<>>]_vars

\* C23 witness: the first move of a Car with a handler for on_need_fuel was
\* move(car, 50, 350): the handler was called with 50 and the position is 350
C23_Witness ==
  \E a \in inuse :
    /\ Live(a)
    /\ lastOp.op = "call" /\ lastOp.name = "move" /\ lastOp.obj = a
    /\ lastOp.arg = 350
    /\ CarField(a, "position") = 350
    /\ CarField(a, "km_since_last_fuel") = 350
    /\ Len(log) = 2
    /\ log[2].op = "handler" /\ log[2].name = "on_need_fuel" /\ log[2].arg = 50

\* ------------------------------------------------------------------- C24
\* object.position, read from the instance in block a
PositionOf(a) == GetMember(Machine, PointerTo(a), obs[a].cls, "position")

\* the call of the handler registered for on_move on the instance in block
\* a, if there is one
OnMoveCall(a, arg) ==
  IF obs[a].reg["on_move"] = NoHandler THEN <<>>
  ELSE <<HandlerStep(obs[a].reg["on_move"], "on_move", PointerTo(a), arg)>>

\* C24: swap_movables_position on the Moveable structs of two instances of
\* classes that implement Moveable (a Car and an Elephant among them), with
\* positions p and q, leaves position q in the first instance and p in the
\* second, read from the instances, and raises on_move on the first and then
\* on the second instance with |p - q|.
C24_SwapThroughProjections ==
  [][\A a1, a2 \in inuse :
       (lastOp'.op = "swap" /\ lastOp'.obj = a1 /\ lastOp'.arg = a2) =>
         /\ PositionOf(a1)' = PositionOf(a2)
         /\ PositionOf(a2)' = PositionOf(a1)
         /\ log' = OnMoveCall(a1, abs(PositionOf(a1) - PositionOf(a2)))
                   \o OnMoveCall(a2, abs(PositionOf(a1) - PositionOf(a2)))]_vars

\* C24 witness: a Car at 24 and an Elephant at -7 were swapped: the Car is
\* at -7, the Elephant at 24, and the handlers of both were called with 31
C24_Witness ==
  /\ lastOp.op = "swap" /\ lastOp.obj = 1 /\ lastOp.arg = 2
  /\ obs[1].cls = "Car" /\ obs[2].cls = "Elephant"
  /\ PositionOf(1) = 0 - 7
  /\ PositionOf(2) = 24
  /\ Len(log) = 2
  /\ log[1].rcv = PointerTo(1) /\ log[1].arg = 31
  /\ log[2].rcv = PointerTo(2) /\ log[2].arg = 31

\* ------------------------------------------------------------------- C25
\* the wrapper of the invocation the caller is in executes its return
\* statement
WrapperReads(i) == main.pc = "returning" /\ main.on = i /\ main'.pc = "idle"

\* C25: whenever the wrapper of an asynchronous method reads the thread
\* identifier from the argument struct for its return value, the struct is
\* still allocated, and the identifier a running thread function holds for
\* its detach is the one thrd_create stored in the struct.
C25_WrapperReadsLiveArgs ==
  /\ [](\A i \in Invocations :
         worker[i].pc \in {"running", "locked", "stopping", "exiting"}
           => worker[i].thread_id = ThreadId(i))
  /\ [][\A i \in Invocations :
          WrapperReads(i) => args[worker[i].args_struct].state = "alloc"]_vars

\* C25 witness: the wrapper is about to read the struct of an invocation
\* whose thread function has freed it
C25_Witness ==
  \E i \in Invocations :
    /\ main.pc = "returning" /\ main.on = i
    /\ worker[i].pc = "finished"
    /\ args[worker[i].args_struct].state = "freed"

\* ------------------------------------------------------------------- C26
\* the caller has used AWAIT on a thrd_t that names the thread of
\* invocation j
JoinedBy(j) ==
  \E i \in Invocations : main.await[i] # "no" /\ main.thread_id[i] = ThreadId(j)

\* C26: with threads, the thread of an asynchronous invocation is never both
\* detached (by its own EXIT_ASYNC) and the target of a thrd_join made by
\* AWAIT, whichever of the two comes first.
C26_JoinedOrDetachedNotBoth ==
  threads_supported => \A j \in Invocations : ~(worker[j].detached /\ JoinedBy(j))

\* C26 witness: the caller is inside thrd_join on the thread of an
\* invocation, and that thread has detached itself
C26_Witness ==
  /\ threads_supported
  /\ main.pc = "joining"
  /\ worker[main.on].detached
  /\ JoinedBy(main.on)

\* ------------------------------------------------------------------- C27
\* the thread function of invocation i has been started and has not ended
WorkerAlive(i) == worker[i].pc \notin {"none", "finished"}

\* the thread function of invocation i executes statements that read or
\* write members of self
WorkerUsesSelf(i) ==
  /\ worker[i].pc \in {"spawned", "running", "locked", "stopping"}
  /\ worker'[i].pc # worker[i].pc

\* C27: the instance an asynchronous method was called on is not destroyed
\* and freed (by DESTROY_FREE or by the scope-exit hook) while a thread
\* function started on it has not ended, and no thread function reads or
\* writes the instance after its memory was freed.
C27_NoWorkerOutlivesInstance ==
  /\ [](\A b \in HeapBlocks : heap[b] = "freed" =>
          \A i \in Invocations : ~WorkerAlive(i))
  /\ [][\A b \in HeapBlocks, i \in Invocations :
          WorkerUsesSelf(i) => heap[b] # "freed"]_vars

\* C27 witness: the instance was destroyed and freed, and a thread function
\* started on it holds its mutex, about to increment total_seconds_elapsed
C27_Witness ==
  /\ heap[1] = "freed" /\ mtx[1] = "destroyed"
  /\ num_objects_destroyed = 1
  /\ \E i \in Invocations : worker[i].pc = "locked"

\* ------------------------------------------------------------------- C28
\* C28: the first destruction of an instance of class C through a variable
\* of the type of C or of an ancestor A, by DESTROY, by DESTROY_FREE or by the
\* scope-exit hook of AUTODESTROY_PTR(A) / AUTODESTROY(A), runs the cleanup
\* code of every class of the chain of C, that of C first.
C28_DestructionVirtualOnEveryPath ==
  (/\ lastOp.op \in {"DESTROY", "DESTROY_FREE", "scope_exit"}
   /\ obs[lastOp.obj].cls # ""
   /\ obs[lastOp.obj].calls = 1)
    => \E R \in {LeafToRoot(obs[lastOp.obj].cls)} :
         /\ Len(StepsOf("user_cleanup")) = Len(R)
         /\ \A i \in 1..Len(R) : StepsOf("user_cleanup")[i].cls = R[i]

\* C28, restricted to DESTROY and DESTROY_FREE: these go through the
\* _destructor pointer of the instance
C28_DestroyMacrosVirtual ==
  lastOp.op \in {"DESTROY", "DESTROY_FREE"} => C28_DestructionVirtualOnEveryPath

\* C28 witness: a Car kept in an AUTODESTROY_PTR(Vehicle) pointer went out
\* of scope: the cleanup code of Vehicle ran, that of Car did not, and the
\* memory is freed
C28_Witness ==
  /\ lastOp.op = "scope_exit" /\ lastOp.view = "Vehicle"
  /\ obs[lastOp.obj].cls = "Car"
  /\ obs[lastOp.obj].calls = 1
  /\ obs[lastOp.obj].cleanups["Car"] = 0
  /\ obs[lastOp.obj].cleanups["Vehicle"] = 1
  /\ heap[lastOp.obj] = "freed"

\* ------------------------------------------------------------------- C29
\* the positions in the record of the last operation of the steps of kind op
PositionsOf(op) == {i \in 1..Len(log) : log[i].op = op}

\* C29: the first destruction call on an instance destroys its mutex exactly
\* once; every step that sets _destructor to NULL and the destruction of the
\* mutex come after the cleanup code of every class of the chain of the
\* instance; a later destruction call does not destroy the mutex again.
C29_LockReleasedOnceAfterCleanup ==
  (lastOp.op \in DestroyOps /\ obs[lastOp.obj].cls # "") =>
    IF obs[lastOp.obj].calls = 1
    THEN /\ Cardinality(PositionsOf("mutex_destroy")) = 1
         /\ PositionsOf("mark_destroyed") # {}
         /\ {log[i].cls : i \in PositionsOf("user_cleanup")}
              = Range(LeafToRoot(obs[lastOp.obj].cls))
         /\ \A i \in PositionsOf("user_cleanup"),
               j \in PositionsOf("mark_destroyed") \cup PositionsOf("mutex_destroy") :
               i < j
         /\ mtx[lastOp.obj] = "destroyed"
    ELSE PositionsOf("mutex_destroy") = {}

\* C29 witness: DESTROY_FREE was the first destruction of a Car: cleanup of
\* Car and Vehicle, _destructor set to NULL twice, the mutex destroyed once,
\* the memory freed, in this order
C29_Witness ==
  /\ lastOp.op = "DESTROY_FREE"
  /\ obs[lastOp.obj].cls = "Car"
  /\ obs[lastOp.obj].calls = 1
  /\ [i \in 1..Len(log) |-> log[i].op]
       = <<"user_cleanup", "user_cleanup", "mark_destroyed", "mark_destroyed",
           "mutex_destroy", "free">>
  /\ mtx[lastOp.obj] = "destroyed"

\* ------------------------------------------------------------------- C30
\* the method pointers and the to_<Interface> pointers of the instance in
\* block a
SlotNames(a) ==
  VisibleMembers(obs[a].cls, "methods")
    \cup {ToName(i) : i \in VisibleMembers(obs[a].cls, "ifaces")}

Slots(a) ==
  [m \in SlotNames(a) |-> GetMember(Machine, PointerTo(a), obs[a].cls, m)]

\* every method pointer of the instance in block a holds the function of the
\* most derived class that implements the method, every to_<Interface>
\* pointer the cast function of the class of the instance
SlotsAsConstructed(a) ==
  /\ \A m \in VisibleMembers(obs[a].cls, "methods") :
       Slots(a)[m] = MethodFunction(MostDerivedImplementer(obs[a].cls, m), m)
  /\ \A i \in VisibleMembers(obs[a].cls, "ifaces") :
       Slots(a)[ToName(i)] = TRICAT(obs[a].cls, i)

\* C30: as long as the memory of a constructed instance is there, its method
\* pointers and its to_<Interface> pointers hold what the constructor stored:
\* no method call, REGISTER_EVENT, RAISE_EVENT, cast call, LOCK_OBJECT,
\* UNLOCK_OBJECT or destruction call changes any of them.
C30_SlotsFixedAfterConstruction ==
  /\ [](\A a \in Blocks : Usable(a) => SlotsAsConstructed(a))
  /\ [][\A a \in Blocks :
          (Usable(a) /\ Usable(a)' /\ lastOp'.op \notin {"NEW_ALLOC", "NEW_INPLACE"})
            => Slots(a)' = Slots(a)]_vars

\* C30 witness: a Car on the stack was destroyed in place, then a handler
\* was registered on it and the mutex member written by LOCK_OBJECT of a
\* build without threads; its slots are those of a new Car
C30_Witness ==
  /\ ~threads_supported
  /\ lastOp.op = "LOCK_OBJECT"
  /\ obs[2].cls = "Car" /\ Usable(2)
  /\ obs[2].calls > 0
  /\ GetMember(Machine, 2, "Car", "on_move") # NULL
  /\ GetMember(Machine, 2, "Car", "mutex") = 1
  /\ SlotsAsConstructed(2)

\* ------------------------------------------------------------------- C31
\* the interface struct i obtained from the instance in block a through a
\* pointer of type view
ProjectionVia(a, view, i) == CallCastPointer(view, i, PointerTo(a), Machine)

\* the interface struct p refers to the instance in block a: self is the
\* instance, the data and event pointers address its members, the method
\* pointers equal its method pointers
RefersTo(p, a) ==
  /\ p.self = PointerTo(a)
  /\ \A x \in DOMAIN p.data :
       p.data[x] = AddressOfMember(PointerTo(a), obs[a].cls, x)
  /\ \A e \in DOMAIN p.events :
       p.events[e] = AddressOfMember(PointerTo(a), obs[a].cls, e)
  /\ \A m \in DOMAIN p.methods :
       p.methods[m] = GetMember(Machine, PointerTo(a), obs[a].cls, m)

\* C31: for a live instance of class C and every interface I of its chain,
\* to_I called through a pointer of any class of the chain that implements I
\* returns the struct it returns through a C pointer: self is the instance,
\* data and event pointers address the members of the instance, method
\* pointers equal the method pointers of the instance at that time; the
\* struct a cast call stores is that struct, and a call through a method
\* pointer of the struct with self as receiver runs the function of the most
\* derived class that implements the method.
C31_ProjectionSameThroughAnyView ==
  /\ [](\A a \in Blocks : Live(a) =>
          \A view \in ViewsOf(obs[a].cls) : \A i \in VisibleMembers(view, "ifaces") :
             /\ ProjectionVia(a, view, i) = ProjectionVia(a, obs[a].cls, i)
             /\ ProjectionVia(a, view, i).iface = i
             /\ RefersTo(ProjectionVia(a, view, i), a))
  /\ [][\A a \in Blocks :
          /\ (lastOp'.op = "project" /\ lastOp'.obj = a)
               => proj'[a] = ProjectionVia(a, obs[a].cls, lastOp'.name)
          /\ (lastOp'.op = "call_projected" /\ lastOp'.obj = a)
               => log'[1] = MethodStep(MostDerivedImplementer(obs[a].cls, lastOp'.name),
                                       lastOp'.name, PointerTo(a), lastOp'.arg)]_vars

\* C31 witness: to_Moveable was called on a Car through a Vehicle pointer and
\* move called through the struct: Car's move ran on the Car
C31_Witness ==
  /\ lastOp.op = "call_projected" /\ lastOp.name = "move"
  /\ obs[lastOp.obj].cls = "Car"
  /\ proj[lastOp.obj].iface = "Moveable"
  /\ obs[lastOp.obj].late = {}
  /\ log[1].op = "method" /\ log[1].cls = "Car" /\ log[1].rcv = PointerTo(lastOp.obj)
  /\ GetMember(Machine, PointerTo(lastOp.obj), "Car", "km_since_last_fuel") = 350

\* ------------------------------------------------------------------- C32
\* the data members the CONSTRUCTOR code of the chain of class c assigns,
\* with the value assigned for constructor argument arg
UserAssigned(c, arg) ==
  IF c = "Car"
  THEN [m \in {"position", "km_total", "km_since_last_fuel"} |->
          IF m = "km_total" THEN arg ELSE 0]
  ELSE [m \in {} |-> 0]

\* C32: after NEW_ALLOC or NEW_INPLACE returned an instance, whatever the
\* memory held before, every event member of the instance is NULL and every
\* data member the classes declare is zero unless the CONSTRUCTOR code
\* assigned it, and then it holds the value assigned; RAISE_EVENT on the new
\* instance calls nothing.
C32_FreshInstanceIsZeroed ==
  /\ [](Constructed =>
          /\ \A e \in VisibleMembers(lastOp.view, "events") :
               GetMember(Machine, lastOp.ret, lastOp.view, e) = NULL
          /\ \A m \in VisibleMembers(lastOp.view, "data") :
               GetMember(Machine, lastOp.ret, lastOp.view, m)
                 = IF m \in DOMAIN UserAssigned(lastOp.view, lastOp.arg)
                   THEN UserAssigned(lastOp.view, lastOp.arg)[m] ELSE 0)
  /\ [][(Constructed /\ lastOp'.op = "RAISE_EVENT" /\ lastOp'.obj = lastOp.obj)
          => log' = <<>> /\ mem' = mem]_vars

\* C32 witness: a Vehicle was constructed in a stack block whose slots held
\* another instance with a handler registered and data written
C32_Witness ==
  /\ Constructed /\ lastOp.op = "NEW_INPLACE" /\ lastOp.view = "Vehicle"
  /\ num_objects_created = 2
  /\ obs[lastOp.obj].calls = 0
  /\ GetMember(Machine, lastOp.ret, "Vehicle", "on_move") = NULL
  /\ GetMember(Machine, lastOp.ret, "Vehicle", "id") = 0

\* ------------------------------------------------------------------- C33
\* the number of times the destructor calls of the threads destroyed the
\* mutex of an instance
MutexDestroyCalls == worker[1].frees + worker[2].frees

\* C33: when two threads call the destructor of the same live instance, in
\* any interleaving, the cleanup code of every class of the chain runs at
\* most once, and exactly once when a call has ended, and the mutex is
\* destroyed at most once.
C33_ConcurrentDestructionOnce ==
  \A a \in inuse :
    obs[a].cls # "" =>
      /\ \A c \in Classes : obs[a].cleanups[c] <= 1
      /\ MutexDestroyCalls <= 1
      /\ (\E t \in Invocations : worker[t].pc = "finished" /\ worker[t].on = a)
           => \A c \in Range(LeafToRoot(obs[a].cls)) : obs[a].cleanups[c] = 1

\* C33 witness: both threads passed the test of _destructor of a Car before
\* either set it to NULL; both destructor calls have ended, the cleanup code
\* of Car and Vehicle ran twice and the mutex was destroyed twice
C33_Witness ==
  \E a \in inuse :
    /\ obs[a].cls = "Car"
    /\ \A t \in Invocations : worker[t].pc = "finished" /\ worker[t].on = a
    /\ obs[a].cleanups["Car"] = 2 /\ obs[a].cleanups["Vehicle"] = 2
    /\ MutexDestroyCalls = 2
    /\ num_objects_destroyed = 2

\* ------------------------------------------------------------------- C34
\* C34: an object constructed by NEW_INPLACE in a block, also one that held
\* a destroyed instance, is live: _destructor is not NULL, the method and
\* cast-function pointers are installed, every event member is NULL. Each
\* instance has the cleanup code of every class of its chain run exactly
\* once from its first destruction call on; so the objects counted as
\* destroyed are the objects constructed, less the one that is live.
C34_InplaceRounds ==
  \A a \in StackBlocks \cap inuse :
    /\ (Constructed /\ lastOp.obj = a) =>
         /\ Live(a)
         /\ DestructorSlot(a) # NULL
         /\ SlotsAsConstructed(a)
         /\ \A e \in VisibleMembers(obs[a].cls, "events") : EventSlot(a, e) = NULL
    /\ obs[a].cls # "" =>
         \A c \in Range(LeafToRoot(obs[a].cls)) :
           obs[a].cleanups[c] = IF obs[a].calls = 0 THEN 0 ELSE 1
    /\ num_objects_destroyed
         = num_objects_created - (IF obs[a].cls # "" /\ obs[a].calls = 0 THEN 1 ELSE 0)

\* C34 witness: the second object constructed in the block, a Car, after a
\* first one was destroyed, has been destroyed too: two rounds, two counted
C34_Witness ==
  /\ lastOp.op \in DestroyOps
  /\ obs[lastOp.obj].cls = "Car"
  /\ lastOp.obj \in StackBlocks
  /\ obs[lastOp.obj].calls = 1
  /\ num_objects_created = 2
  /\ num_objects_destroyed = 2

\* ------------------------------------------------------------------- C35
\* start_clock has returned for invocation i and its thread function has not
\* left the loop of the body
InLoopAfterReturn(i) ==
  /\ main.thread_id[i] # NoThread
  /\ worker[i].pc \in {"spawned", "running", "locked"}

\* C35: no stop request is lost. A stop_clock call that returns while a
\* started clock has not left its loop leaves continue_running false; the
\* flag stays false until a thread function runs its last statements, so the
\* next poll ends the loop; and the last statements leave clock_is_running
\* false and continue_running true.
C35_StopRequestNeverLost ==
  [][/\ (/\ main.pc = "in_method"
         /\ main'.pc = "after_method"
         /\ \E i \in Invocations : InLoopAfterReturn(i))
        => ~clock'.continue_running
     /\ (~clock.continue_running /\ clock'.continue_running)
        => \E i \in Invocations :
             worker[i].pc = "stopping" /\ worker'[i].pc = "exiting"
     /\ \A i \in Invocations :
          (worker[i].pc = "stopping" /\ worker'[i].pc = "exiting")
          => (~clock'.clock_is_running /\ clock'.continue_running)]_vars

\* C35 witness: stop_clock has returned after start_clock returned and before
\* the thread function ran its first statements; the flag still says
\* "continue", and the thread function has yet to start its loop
C35_Witness ==
  /\ main.pc = "after_method"
  /\ main.thread_id[1] = ThreadId(1)
  /\ worker[1].pc = "spawned"
  /\ worker[2].pc = "none"
  /\ clock.continue_running
  /\ ~clock.clock_is_running

\* ------------------------------------------------------------------- C37
\* C37: only the Method and Override entries of the descriptors decide what
\* the method pointers hold. DerivedPrintable defines a function print and
\* lists no entry for it: in every instance of DerivedPrintable whose memory
\* is there the member print, read through either pointer type, holds
\* BasePrintable_print, so does the member print of the Printable struct
\* obtained from it, and every call of print through a pointer or the struct
\* runs BasePrintable_print and no other method function.
C37_OnlyDescriptorInstalls ==
  \A a \in inuse :
    (Usable(a) /\ obs[a].cls = "DerivedPrintable") =>
      /\ \A view \in ViewsOf("DerivedPrintable") :
           /\ GetMember(Machine, PointerTo(a), view, "print")
                = MethodFunction("BasePrintable", "print")
           /\ GetMember(Machine, PointerTo(a), view, "print")
                # MethodFunction("DerivedPrintable", "print")
      /\ proj[a] # NoProjection =>
           proj[a].methods["print"] = MethodFunction("BasePrintable", "print")
      /\ (lastOp.obj = a /\ lastOp.op \in {"call", "call_projected"}) =>
           /\ \E k \in 1..Len(log) : log[k].op = "method"
           /\ \A k \in 1..Len(log) :
                log[k].op = "method" =>
                  (log[k].cls = "BasePrintable" /\ log[k].name = "print")

\* C37 witness: a DerivedPrintable was constructed, its Printable struct
\* obtained through the DerivedPrintable pointer, and print called through
\* the struct: BasePrintable_print ran
C37_Witness ==
  /\ lastOp.op = "call_projected"
  /\ obs[lastOp.obj].cls = "DerivedPrintable"
  /\ proj[lastOp.obj].iface = "Printable"
  /\ proj[lastOp.obj].methods["print"] = MethodFunction("BasePrintable", "print")
  /\ \E k \in 1..Len(log) :
       log[k].op = "method" /\ log[k].cls = "BasePrintable" /\ log[k].rcv = lastOp.obj

====
